---- MODULE Spec2Model ----
(***************************************************************************)
(* lock-box backend: the credential and access-control core.               *)
(*                                                                         *)
(*   SpecAuth  - api/auth.py: register, login, refresh, logout over the    *)
(*               users and refresh_tokens tables.                          *)
(*   SpecRoom  - api/rooms.py, api/invites.py, utils/dependencies.py:      *)
(*               rooms, invites, their redemption into shares, and the     *)
(*               access resolver over them.                                *)
(*   SpecResolve - utils/dependencies.py require_room_access applied to    *)
(*               share rows of every shape the table admits.               *)
(*                                                                         *)
(* Every request runs in its own database session (db.py get_db); the      *)
(* engine is created with no isolation level, so the store runs at the     *)
(* PostgreSQL default, READ COMMITTED: a session sees what was committed   *)
(* when its SELECT ran, its own INSERTs are invisible to others until its  *)
(* COMMIT, and an UPDATE of a row another session changed meanwhile is     *)
(* applied on top of that change (the ORM's UPDATE names the row by its    *)
(* primary key only and sets only the attributes the handler assigned).    *)
(* A handler that reads, awaits and then writes is therefore two steps:    *)
(* the step that reads and the step that commits.                          *)
(***************************************************************************)
EXTENDS Integers, Sequences, FiniteSets, TLC

\* Optional values (Python None / SQL NULL): None, or Some(v).  A nullable
\* row id is the id, or 0.
None == <<>>
Some(v) == <<v>>

(***************************************************************************)
(* Bounds of the model.                                                    *)
(***************************************************************************)
\* Rows the refresh_tokens table may hold.
MaxTokens == 3

\* Rows the data_rooms table may hold (deleted ones included).
MaxRooms == 1
\* Rows the invites table may hold (deleted ones included).
MaxInvites == 1
\* Rows the documents table may hold (deleted ones included).
MaxDocs == 1

\* The request slots: two requests may be in flight at once.
Procs == {"p1", "p2"}

(***************************************************************************)
(* config.py                                                               *)
(***************************************************************************)
REFRESH_TOKEN_EXPIRES_DAYS == 7
JWT_ISSUER == "lockbox"

\* Last day the clock reaches: it advances a refresh-token lifetime at a
\* time, so that a token is seen before, at and after its expiry.
MaxTime == 2 * REFRESH_TOKEN_EXPIRES_DAYS

(***************************************************************************)
(* State.                                                                  *)
(***************************************************************************)
VARIABLES
    now,             \* the wall clock, in days
    users,           \* users table: id -> row, for the ids that exist
    refresh_tokens,  \* refresh_tokens table: sequence of rows, id = index
    rotated_from,    \* history: for each refresh_tokens row, the row whose
                     \* rotation inserted it (0: inserted by register/login)
    audit_logs,      \* audit_logs table: set of committed entries
    refreshing,      \* per request slot: the locals of a refresh handler
                     \* between its SELECT and its COMMIT (pc "idle": none)
    rooms,           \* data_rooms table: sequence of rows, id = index; a
                     \* deleted row stays with live = FALSE (ids are uuid4
                     \* and never reused)
    shares,          \* shares table: <<data_room_id, user_id>> -> row (the
                     \* pair is the table's unique key)
    invites,         \* invites table: sequence of rows, id = index
    accepting,       \* per request slot: the locals of an accept_invite
                     \* handler between its SELECTs and its COMMIT
    documents,       \* documents table: sequence of rows, id = index
    last             \* the response of the handler that completed last

authVars == <<users, refresh_tokens, rotated_from, refreshing>>
roomVars == <<rooms, shares, invites, accepting, documents>>
vars == <<now, users, refresh_tokens, rotated_from, audit_logs, refreshing,
          rooms, shares, invites, accepting, documents, last>>

(***************************************************************************)
(* Values the requests are drawn from.                                     *)
(***************************************************************************)
UserIds == {"u1", "u2", "u3", "u4"}

\* E-mail addresses are sequences of letters, so that str.lower() is an
\* operation on them.  One mailbox registers, under either spelling; a
\* login may also name a mailbox nobody registered.
RegisterEmails == {<<"a", "x">>, <<"A", "x">>}
EmailInputs == RegisterEmails \cup {<<"b", "x">>}
Passwords == {"pw", "other"}
RoleInputs == {"guest", "admin"}

LowerChar(c) == CASE c = "A" -> "a" [] c = "B" -> "b" [] c = "X" -> "x" [] OTHER -> c

\* str.lower()
lower(s) == [i \in DOMAIN s |-> LowerChar(s[i])]

(***************************************************************************)
(* utils/security.py: the hash is opaque; verification succeeds exactly on *)
(* the password that was hashed.                                           *)
(***************************************************************************)
hash_password(password) == <<"argon2", password>>

verify_password(password, hashed) == hashed = <<"argon2", password>>

(***************************************************************************)
(* services/jwt.py                                                         *)
(***************************************************************************)
\* The signed refresh token; jti is the uuid4 drawn for it.
create_refresh_token(user_id, jti, t) ==
    [sub |-> user_id, type |-> "refresh", jti |-> jti,
     exp |-> t + REFRESH_TOKEN_EXPIRES_DAYS, iss |-> JWT_ISSUER, sig |-> "ok"]

\* jwt.decode: the signature, then exp (expired when the clock is past it),
\* then the issuer.  The 401's detail, or "" when the payload is returned.
verify_token_err(token, t) ==
    IF token.sig # "ok" THEN "Invalid token"
    ELSE IF token.exp < t THEN "Token expired"
    ELSE IF token.iss # JWT_ISSUER THEN "Invalid token"
    ELSE ""

(***************************************************************************)
(* Tables.                                                                 *)
(***************************************************************************)
TokenIds == 1..Len(refresh_tokens)

\* select(User).where(User.email == email)
user_by_email(email) == {u \in DOMAIN users : users[u].email = email}

\* select(RefreshToken).where(RefreshToken.jti == jti): the row's id, or 0.
rt_by_jti_or_latest(jti) ==
    IF \E i \in TokenIds : refresh_tokens[i].jti = jti
    THEN CHOOSE i \in TokenIds : refresh_tokens[i].jti = jti
    ELSE Len(refresh_tokens)

rt_by_jti(jti) ==
    IF \E i \in TokenIds : refresh_tokens[i].jti = jti
    THEN CHOOSE i \in TokenIds : refresh_tokens[i].jti = jti
    ELSE 0

\* RefreshToken(user_id=..., jti=..., expires_at=..., revoked=False)
NewRefreshToken(user_id, jti, expires_at) ==
    [user_id |-> user_id, jti |-> jti, expires_at |-> expires_at,
     revoked |-> FALSE, replaced_by |-> 0]

\* utils/audit.py log_audit: the entry added to the session.
log_audit(user_id, action, object_type, object_id) ==
    [user_id |-> user_id, action |-> action, object_type |-> object_type,
     object_id |-> object_id]

\* Rows inserted or about to be: every in-flight refresh has flushed its INSERT.
Reserved ==
    Len(refresh_tokens) + Cardinality({p \in Procs : refreshing[p].pc # "idle"})

\* No credential: the request carries none.
NoToken == [sub |-> "", type |-> "", jti |-> 0, exp |-> 0, iss |-> "", sig |-> ""]

\* What a handler returned: the status code and detail; the credential the
\* request carried; the refresh_tokens row the handler looked up (0: none)
\* with that row's revoked and replaced_by as the handler read them; and the
\* row it inserted (0: none).
Response(op, status, detail, token, rt, pre_revoked, pre_replaced_by, new) ==
    [op |-> op, status |-> status, detail |-> detail, token |-> token,
     rt |-> rt, pre_revoked |-> pre_revoked,
     pre_replaced_by |-> pre_replaced_by, new |-> new]

\* A response that names no refresh_tokens row.
Plain(op, status, detail, token) ==
    Response(op, status, detail, token, 0, FALSE, 0, 0)

\* A response about row rt, read from the table as it is now.
About(op, status, detail, token, rt) ==
    Response(op, status, detail, token, rt, refresh_tokens[rt].revoked,
             refresh_tokens[rt].replaced_by, 0)

\* The refresh token a client holds for row i.
TokenOfRow(i) ==
    [sub |-> refresh_tokens[i].user_id, type |-> "refresh",
     jti |-> refresh_tokens[i].jti, exp |-> refresh_tokens[i].expires_at,
     iss |-> JWT_ISSUER, sig |-> "ok"]

\* The credentials a request may carry: the refresh token of any row, an
\* access token (it has no jti: 0), a refresh token whose row is not in the
\* table, and a token signed with another key.
TokenInputs ==
    {TokenOfRow(i) : i \in TokenIds}
    \cup {[sub |-> "u1", type |-> "access", jti |-> 0, exp |-> MaxTime,
           iss |-> JWT_ISSUER, sig |-> "ok"],
          create_refresh_token("u1", MaxTokens + 1, 0),
          [sub |-> "u1", type |-> "refresh", jti |-> 1, exp |-> MaxTime,
           iss |-> JWT_ISSUER, sig |-> "forged"]}

\* The slot a new request takes: the slots are interchangeable, so the
\* first free one.
FreeSlot ==
    IF \E p \in Procs : refreshing[p].pc = "idle"
    THEN CHOOSE p \in Procs : refreshing[p].pc = "idle"
    ELSE ""

Idle == [pc |-> "idle", token |-> NoToken, old_rt |-> 0, old_revoked |-> FALSE,
         old_replaced_by |-> 0, user_id |-> "", new_expires_at |-> 0]

\* A slot with no accept_invite request in it.
AcceptIdle == [pc |-> "idle", user |-> "", invite |-> 0, data_room_id |-> 0,
               uses_count |-> 0]

\* "if not old_rt or old_rt.revoked" (refresh)
InvalidRefreshTokenNoRevokedCheck(old_rt) == old_rt = 0

InvalidRefreshTokenRejectsRotated(old_rt) ==
    \/ old_rt = 0
    \/ refresh_tokens[old_rt].revoked
    \/ rotated_from[old_rt] # 0

InvalidRefreshToken(old_rt) ==
    old_rt = 0 \/ refresh_tokens[old_rt].revoked

\* "rt.revoked = True" (refresh, logout): the row as the UPDATE leaves it.
MarkRevokedForgotten(row) == row

MarkRevokedToggles(row) == [row EXCEPT !.revoked = ~row.revoked]

MarkRevoked(row) == [row EXCEPT !.revoked = TRUE]

\* logout's status code: the 401 verify_token raised, else 200 whether or
\* not a row was found.
LogoutStatusUnknownIsError(err, rt) == IF err # "" \/ rt = 0 THEN 401 ELSE 200

LogoutStatus(err, rt) == IF err # "" THEN 401 ELSE 200

(***************************************************************************)
(* api/auth.py                                                             *)
(***************************************************************************)
\* An HTTPException raised before anything was written.
AuthRaiseAudited(resp) ==
    /\ last' = resp
    /\ audit_logs' = audit_logs
           \cup {log_audit(resp.token.sub, resp.op, "error", resp.detail)}
    /\ UNCHANGED <<now, users, refresh_tokens, rotated_from, refreshing,
                   roomVars>>

AuthRaise(resp) ==
    /\ last' = resp
    /\ UNCHANGED <<now, users, refresh_tokens, rotated_from, audit_logs,
                   refreshing, roomVars>>

\* POST /auth/register
register(email, password, role) ==
    IF role \notin {"owner", "guest"}
    THEN AuthRaise(Plain("register", 400, "Invalid role", NoToken))
    ELSE IF user_by_email(lower(email)) # {}
    THEN AuthRaise(Plain("register", 400, "Email already registered", NoToken))
    ELSE
        /\ Reserved < MaxTokens
        /\ UserIds \ DOMAIN users # {}
        /\ LET u == CHOOSE x \in UserIds \ DOMAIN users : TRUE
               id == Len(refresh_tokens) + 1
               row == [email |-> lower(email),
                       password_hash |-> hash_password(password),
                       role |-> role, is_verified |-> TRUE,
                       is_active |-> TRUE, is_superuser |-> FALSE]
           IN  /\ users' = [x \in DOMAIN users \cup {u} |->
                               IF x = u THEN row ELSE users[x]]
               /\ refresh_tokens' =
                      Append(refresh_tokens,
                             NewRefreshToken(u, id, now + REFRESH_TOKEN_EXPIRES_DAYS))
               /\ rotated_from' = Append(rotated_from, 0)
               /\ audit_logs' = audit_logs
                      \cup {log_audit(u, "user_register", "user", u)}
               /\ last' = Response("register", 200, "", NoToken, 0, FALSE, 0, id)
        /\ UNCHANGED <<now, refreshing, roomVars>>

\* POST /auth/login
login(email, password) ==
    LET found == user_by_email(lower(email)) IN
    IF found = {}
    THEN AuthRaise(Plain("login", 401, "Invalid credentials", NoToken))
    ELSE LET u == CHOOSE x \in found : TRUE
             id == Len(refresh_tokens) + 1
         IN
         IF ~verify_password(password, users[u].password_hash)
         THEN AuthRaise(Plain("login", 401, "Invalid credentials", NoToken))
         ELSE IF ~users[u].is_active
         THEN AuthRaise(Plain("login", 401, "User inactive", NoToken))
         ELSE IF ~users[u].is_verified
         THEN AuthRaise(Plain("login", 401, "Email not verified", NoToken))
         ELSE
             /\ Reserved < MaxTokens
             /\ refresh_tokens' =
                    Append(refresh_tokens,
                           NewRefreshToken(u, id, now + REFRESH_TOKEN_EXPIRES_DAYS))
             /\ rotated_from' = Append(rotated_from, 0)
             /\ audit_logs' = audit_logs
                    \cup {log_audit(u, "user_login", "user", u)}
             /\ last' = Response("login", 200, "", NoToken, 0, FALSE, 0, id)
             /\ UNCHANGED <<now, users, refreshing, roomVars>>

\* POST /auth/refresh, to the flush of the new row: the token is verified,
\* the old row is SELECTed and checked, the new token pair is created and
\* the new row INSERTed in the session's open transaction.
refresh_select(p, token) ==
    /\ p = FreeSlot
    /\ LET err == verify_token_err(token, now)
           old_rt == rt_by_jti(token.jti)
       IN
       IF err # ""
       THEN AuthRaise(Plain("refresh", 401, err, token))
       ELSE IF token.type # "refresh"
       THEN AuthRaise(Plain("refresh", 401, "Invalid token type", token))
       ELSE IF token.sub = ""
       THEN AuthRaise(Plain("refresh", 401, "Invalid token payload", token))
       ELSE IF InvalidRefreshToken(old_rt)
       THEN AuthRaise(IF old_rt = 0
                      THEN Plain("refresh", 401, "Invalid refresh token", token)
                      ELSE About("refresh", 401, "Invalid refresh token", token,
                                 old_rt))
       ELSE IF refresh_tokens[old_rt].expires_at <= now
       THEN \* old_rt.revoked = True; commit; raise
            /\ refresh_tokens' =
                   [refresh_tokens EXCEPT ![old_rt] = MarkRevoked(@)]
            /\ last' = About("refresh", 401, "Refresh token expired", token,
                             old_rt)
            /\ UNCHANGED <<now, users, rotated_from, audit_logs, refreshing,
                           roomVars>>
       ELSE /\ Reserved < MaxTokens
            /\ refreshing' = [refreshing EXCEPT ![p] =
                   [pc |-> "flushed", token |-> token, old_rt |-> old_rt,
                    old_revoked |-> refresh_tokens[old_rt].revoked,
                    old_replaced_by |-> refresh_tokens[old_rt].replaced_by,
                    user_id |-> token.sub,
                    new_expires_at |-> now + REFRESH_TOKEN_EXPIRES_DAYS]]
            /\ UNCHANGED <<now, users, refresh_tokens, rotated_from,
                           audit_logs, last, roomVars>>

\* POST /auth/refresh, from the flush on: old_rt.revoked = True,
\* old_rt.replaced_by = new_rt.id, the audit entry, COMMIT.  The UPDATE is
\* "SET revoked, replaced_by WHERE id = old_rt.id": it does not look at the
\* row's current revoked.  The new row's jti is a fresh uuid4: its id here.
refresh_commit(p) ==
    /\ refreshing[p].pc = "flushed"
    /\ LET r == refreshing[p]
           id == Len(refresh_tokens) + 1
       IN  /\ refresh_tokens' =
                  Append([refresh_tokens EXCEPT
                              ![r.old_rt] = [MarkRevoked(@) EXCEPT !.replaced_by = id]],
                         NewRefreshToken(r.user_id, id, r.new_expires_at))
           /\ rotated_from' = Append(rotated_from, r.old_rt)
           /\ audit_logs' = audit_logs
                  \cup {log_audit(r.user_id, "refresh_token", "refresh_token",
                                  ToString(r.old_rt))}
           /\ last' = Response("refresh", 200, "", r.token, r.old_rt,
                               r.old_revoked, r.old_replaced_by, id)
    /\ refreshing' = [refreshing EXCEPT ![p] = Idle]
    /\ UNCHANGED <<now, users, roomVars>>

\* POST /auth/logout
logout(token) ==
    LET err == verify_token_err(token, now)
        rt == rt_by_jti(token.jti)
        status == LogoutStatus(err, rt)
    IN
    IF err # ""
    THEN AuthRaise(Plain("logout", status, err, token))
    ELSE IF rt # 0
    THEN /\ refresh_tokens' = [refresh_tokens EXCEPT ![rt] = MarkRevoked(@)]
         /\ audit_logs' = audit_logs
                \cup {log_audit(token.sub, "logout", "refresh_token", ToString(rt))}
         /\ last' = About("logout", status, "Logged out", token, rt)
         /\ UNCHANGED <<now, users, rotated_from, refreshing, roomVars>>
    ELSE AuthRaise(Plain("logout", status, "Logged out", token))

\* Time passes.
Tick ==
    /\ now < MaxTime
    /\ now' = now + REFRESH_TOKEN_EXPIRES_DAYS
    /\ UNCHANGED <<users, refresh_tokens, rotated_from, audit_logs, refreshing,
                   last, roomVars>>

(***************************************************************************)
(* SpecAuth: the token lifecycle.                                          *)
(***************************************************************************)
InitAuth ==
    /\ now = 0
    /\ users = <<>>
    /\ refresh_tokens = <<>>
    /\ rotated_from = <<>>
    /\ audit_logs = {}
    /\ refreshing = [p \in Procs |-> Idle]
    /\ last = Plain("none", 0, "", NoToken)
    /\ rooms = <<>>
    /\ shares = <<>>
    /\ invites = <<>>
    /\ accepting = [p \in Procs |-> AcceptIdle]
    /\ documents = <<>>

NextAuth ==
    \/ \E e \in RegisterEmails, r \in RoleInputs : register(e, "pw", r)
    \/ \E e \in EmailInputs, pw \in Passwords : login(e, pw)
    \/ \E p \in Procs, t \in TokenInputs : refresh_select(p, t)
    \/ \E p \in Procs : refresh_commit(p)
    \/ \E t \in TokenInputs : logout(t)
    \/ Tick

SpecAuth == InitAuth /\ [][NextAuth]_vars

(***************************************************************************)
(* Rooms, shares and invites.                                              *)
(***************************************************************************)
INVITE_TOKEN_HMAC_SECRET == "change-me-please"

\* The users of SpecRoom: u1 has role owner, u2 is a guest, u3 is a
\* superuser (a flag no handler sets: register always stores False).
SeedUserIds == {"u1", "u2", "u3"}

SeedUsers ==
    [u \in SeedUserIds |->
        [email |-> CASE u = "u1" -> <<"o", "x">>
                     [] u = "u2" -> <<"a", "x">>
                     [] OTHER -> <<"s", "x">>,
         password_hash |-> hash_password("pw"),
         role |-> IF u = "u1" THEN "owner" ELSE "guest",
         is_verified |-> TRUE, is_active |-> TRUE,
         is_superuser |-> (u = "u3")]]

\* Who calls the room and invite management handlers: the owner (they pass)
\* and a guest (they are refused); the superuser calls delete_data_room.
ManagerInputs == {"u1", "u2"}

RoomIds == 1..Len(rooms)
InviteIds == 1..Len(invites)

\* Room ids a request may name: every id the table may come to hold.
RoomIdInputs == 1..MaxRooms
InviteIdInputs == 1..MaxInvites

\* db.get(DataRoom, room_id) finds a row.
RoomExists(room_id) == room_id \in RoomIds /\ rooms[room_id].live

InviteExists(invite_id) == invite_id \in InviteIds /\ invites[invite_id].live

\* InviteCreateRequest bodies the creator sends: capped at one use; capped
\* at two; restricted to u2's address (spelled with a capital) and expiring
\* after an hour.
InviteRequests ==
    {[allowed_email |-> None, max_uses |-> Some(1), single_use |-> FALSE,
      expires_hours |-> None],
     [allowed_email |-> None, max_uses |-> Some(2), single_use |-> FALSE,
      expires_hours |-> None],
     [allowed_email |-> Some(<<"A", "x">>), max_uses |-> None,
      single_use |-> FALSE, expires_hours |-> Some(1)]}

\* secrets.token_urlsafe(32) for the invite that gets id i: unguessable, so
\* a request carries the raw token of some invite that was created, or one
\* that was never issued.
RawToken(i) == <<"raw", i>>

RawTokenInputs == {RawToken(i) : i \in 0..MaxInvites}

\* _hash_token: HMAC-SHA256 under the server's secret.
hash_token(raw_token, secret) == <<"hmac-sha256", secret, raw_token>>

\* select(Invite).where(Invite.token_hash == token_hash): the row's id, or 0.
invite_by_hash(token_hash) ==
    IF \E i \in InviteIds : invites[i].live /\ invites[i].token_hash = token_hash
    THEN CHOOSE i \in InviteIds :
             invites[i].live /\ invites[i].token_hash = token_hash
    ELSE 0

\* "room.owner_id == user.id or user.is_superuser"
IsOwnerSuperuserOrMember(user_id, room_id) ==
    \/ users[user_id].is_superuser
    \/ rooms[room_id].owner_id = user_id
    \/ /\ <<room_id, user_id>> \in DOMAIN shares
       /\ ~shares[<<room_id, user_id>>].revoked

IsOwnerOrSuperuser(user_id, room_id) ==
    users[user_id].is_superuser \/ rooms[room_id].owner_id = user_id

\* What a rooms/invites handler returned, and for which request.
RoomResponse(op, status, detail, user_id, room_id, invite_id) ==
    [op |-> op, status |-> status, detail |-> detail, user |-> user_id,
     room |-> room_id, invite |-> invite_id]

(***************************************************************************)
(* utils/dependencies.py require_room_access: the access resolver.  It     *)
(* reads and writes nothing, so it is an operator of the state.  share is  *)
(* None (the "share": None of the code) or Some(the Share row).            *)
(***************************************************************************)
Grant(room_id, share) ==
    [status |-> 200, detail |-> "", room |-> room_id, share |-> share]

Deny(status, detail) ==
    [status |-> status, detail |-> detail, room |-> 0, share |-> None]

\* select(Share).where(user_id, data_room_id, revoked == False).first()
ActiveShareIgnoringRevoked(user_id, room_id) ==
    IF <<room_id, user_id>> \in DOMAIN shares
    THEN Some(shares[<<room_id, user_id>>])
    ELSE None

ActiveShareWhileInviteLive(user_id, room_id) ==
    IF /\ <<room_id, user_id>> \in DOMAIN shares
       /\ ~shares[<<room_id, user_id>>].revoked
       /\ LET i == shares[<<room_id, user_id>>].invite_id IN
          i = 0 \/ ~invites[i].revoked
    THEN Some(shares[<<room_id, user_id>>])
    ELSE None

ActiveShare(user_id, room_id) ==
    IF /\ <<room_id, user_id>> \in DOMAIN shares
       /\ ~shares[<<room_id, user_id>>].revoked
    THEN Some(shares[<<room_id, user_id>>])
    ELSE None

\* "if user.is_superuser": the first branch of the resolver.
SuperuserBranchNever(user_id) == FALSE

SuperuserBranch(user_id) == users[user_id].is_superuser

\* "if str(room.owner_id) == str(user.id)"
OwnerBranchNeedsShare(user_id, room_id) ==
    /\ rooms[room_id].owner_id = user_id
    /\ ActiveShare(user_id, room_id) # None

OwnerBranch(user_id, room_id) == rooms[room_id].owner_id = user_id

require_room_access(user_id, room_id, require_role) ==
    IF SuperuserBranch(user_id)
    THEN IF ~RoomExists(room_id)
         THEN Deny(404, "Data room not found")
         ELSE Grant(room_id, None)
    ELSE IF ~RoomExists(room_id)
    THEN Deny(404, "Data room not found")
    ELSE IF OwnerBranch(user_id, room_id)
    THEN Grant(room_id, None)
    ELSE LET share == ActiveShare(user_id, room_id) IN
         IF share = None
         THEN Deny(403, "Access denied")
         ELSE IF share[1].expires_at # None /\ share[1].expires_at[1] <= now
         THEN Deny(403, "Share expired")
         ELSE IF require_role # None /\ share[1].role # require_role[1]
         THEN Deny(403, "Insufficient role")
         ELSE Grant(room_id, share)

\* require_role as the callers may pass it.
RequireRoleInputs == {None, Some("owner"), Some("guest")}

(***************************************************************************)
(* api/rooms.py and api/invites.py                                         *)
(***************************************************************************)
FreeAcceptSlot ==
    IF \E p \in Procs : accepting[p].pc = "idle"
    THEN CHOOSE p \in Procs : accepting[p].pc = "idle"
    ELSE ""

\* An HTTPException raised before anything was written.
RoomRaise(resp) ==
    /\ last' = resp
    /\ UNCHANGED <<now, authVars, audit_logs, roomVars>>

\* Share(...) as create_room and accept_invite build it.
NewShare(role, invite_id) ==
    [role |-> role, invite_id |-> invite_id, expires_at |-> None,
     revoked |-> FALSE]

\* The shares table with the row for key added.
InsertShare(key, row) ==
    [k \in DOMAIN shares \cup {key} |-> IF k = key THEN row ELSE shares[k]]

\* POST /rooms/
create_room(user_id) ==
    IF ~(users[user_id].is_superuser \/ users[user_id].role = "owner")
    THEN RoomRaise(RoomResponse("create_room", 403,
                                "Only owners may create rooms", user_id, 0, 0))
    ELSE /\ Len(rooms) < MaxRooms
         /\ LET id == Len(rooms) + 1 IN
            /\ rooms' = Append(rooms, [owner_id |-> user_id, live |-> TRUE])
            /\ shares' = InsertShare(<<id, user_id>>, NewShare("owner", 0))
            /\ audit_logs' = audit_logs
                   \cup {log_audit(user_id, "create_room", "data_room",
                                   ToString(id))}
            /\ last' = RoomResponse("create_room", 200, "", user_id, id, 0)
         /\ UNCHANGED <<now, authVars, documents, invites, accepting>>

\* "share.revoked = True" (revoke_share): the row as the UPDATE leaves it.
RevokeShareDeletesRow(tbl, key) == [k \in DOMAIN tbl \ {key} |-> tbl[k]]

RevokeShareRow(tbl, key) == [tbl EXCEPT ![key].revoked = TRUE]

\* POST /rooms/{room_id}/shares/{user_id}/revoke
revoke_share(user_id, room_id, target) ==
    IF ~RoomExists(room_id)
    THEN RoomRaise(RoomResponse("revoke_share", 404, "Room not found",
                                user_id, room_id, 0))
    ELSE IF ~IsOwnerOrSuperuser(user_id, room_id)
    THEN RoomRaise(RoomResponse("revoke_share", 403,
                                "Only room owner can revoke access",
                                user_id, room_id, 0))
    ELSE IF <<room_id, target>> \notin DOMAIN shares
    THEN RoomRaise(RoomResponse("revoke_share", 404, "Share not found",
                                user_id, room_id, 0))
    ELSE /\ shares' = RevokeShareRow(shares, <<room_id, target>>)
         /\ audit_logs' = audit_logs
                \cup {log_audit(user_id, "revoke_access", "share",
                                <<room_id, target>>)}
         /\ last' = RoomResponse("revoke_share", 200, "Access revoked",
                                 user_id, room_id, 0)
         /\ UNCHANGED <<now, authVars, documents, rooms, invites, accepting>>

\* DELETE /rooms/{room_id}: the row goes, and with it (cascade) the room's
\* shares, invites and documents.  log_audit runs after the commit and
\* nothing commits its entry before the session closes.
delete_data_room(user_id, room_id) ==
    IF ~RoomExists(room_id)
    THEN RoomRaise(RoomResponse("delete_room", 404, "Room not found",
                                user_id, room_id, 0))
    ELSE IF ~IsOwnerOrSuperuser(user_id, room_id)
    THEN RoomRaise(RoomResponse("delete_room", 403,
                                "Not authorized to delete this room",
                                user_id, room_id, 0))
    ELSE /\ rooms' = [rooms EXCEPT ![room_id].live = FALSE]
         /\ shares' = [k \in {x \in DOMAIN shares : x[1] # room_id} |-> shares[k]]
         /\ invites' = [i \in InviteIds |->
                           IF invites[i].data_room_id = room_id
                           THEN [invites[i] EXCEPT !.live = FALSE]
                           ELSE invites[i]]
         /\ documents' = [d \in DOMAIN documents |->
                             IF documents[d].data_room_id = room_id
                             THEN [documents[d] EXCEPT !.live = FALSE]
                             ELSE documents[d]]
         /\ last' = RoomResponse("delete_room", 200,
                                 "Data room deleted successfully",
                                 user_id, room_id, 0)
         /\ UNCHANGED <<now, authVars, audit_logs, accepting>>

\* create_invite: "if req.expires_hours: expires_at = now + hours"
InviteExpiresAt(expires_hours, t) ==
    IF expires_hours # None /\ expires_hours[1] # 0
    THEN Some(t + expires_hours[1])
    ELSE None

\* create_invite: "max_uses = req.max_uses; if req.single_use: max_uses = 1"
InviteMaxUsesExplicitWins(max_uses, single_use) ==
    IF single_use /\ max_uses = None THEN Some(1) ELSE max_uses

InviteMaxUses(max_uses, single_use) ==
    IF single_use THEN Some(1) ELSE max_uses

\* POST /invites/
create_invite(user_id, room_id, req) ==
    IF ~RoomExists(room_id)
    THEN RoomRaise(RoomResponse("create_invite", 404, "Data room not found",
                                user_id, room_id, 0))
    ELSE IF ~IsOwnerOrSuperuser(user_id, room_id)
    THEN RoomRaise(RoomResponse("create_invite", 403,
                                "Only room owner can create invites",
                                user_id, room_id, 0))
    ELSE /\ Len(invites) < MaxInvites
         /\ LET id == Len(invites) + 1 IN
            /\ invites' = Append(invites,
                   [data_room_id |-> room_id,
                    token_hash |-> hash_token(RawToken(id),
                                              INVITE_TOKEN_HMAC_SECRET),
                    created_by |-> user_id,
                    allowed_email |-> req.allowed_email,
                    max_uses |-> InviteMaxUses(req.max_uses, req.single_use),
                    uses_count |-> 0,
                    expires_at |-> InviteExpiresAt(req.expires_hours, now),
                    revoked |-> FALSE,
                    live |-> TRUE])
            /\ audit_logs' = audit_logs
                   \cup {log_audit(user_id, "create_invite", "invite",
                                   ToString(id))}
            /\ last' = [op |-> "create_invite", status |-> 200,
                         detail |-> "", user |-> user_id, room |-> room_id,
                         invite |-> id, req |-> req]
         /\ UNCHANGED <<now, authVars, documents, rooms, shares, accepting>>

\* POST /invites/{invite_id}/revoke
revoke_invite(user_id, invite_id) ==
    IF ~InviteExists(invite_id)
    THEN RoomRaise(RoomResponse("revoke_invite", 404, "Invite not found",
                                user_id, 0, invite_id))
    ELSE LET room_id == invites[invite_id].data_room_id IN
         IF ~RoomExists(room_id)
         THEN RoomRaise(RoomResponse("revoke_invite", 404,
                                     "Data room for invite not found",
                                     user_id, room_id, invite_id))
         ELSE IF ~IsOwnerOrSuperuser(user_id, room_id)
         THEN RoomRaise(RoomResponse("revoke_invite", 403,
                            "Only room owner or superuser can revoke invite",
                            user_id, room_id, invite_id))
         ELSE /\ invites' = [invites EXCEPT ![invite_id].revoked = TRUE]
              /\ audit_logs' = audit_logs
                     \cup {log_audit(user_id, "revoke_invite", "invite",
                                     ToString(invite_id))}
              /\ last' = RoomResponse("revoke_invite", 200, "Invite revoked",
                                      user_id, room_id, invite_id)
              /\ UNCHANGED <<now, authVars, documents, rooms, shares, accepting>>

\* accept_invite: "invite.max_uses is not None and uses_count >= max_uses"
MaxUsesExceededOffByOne(invite) ==
    invite.max_uses # None /\ invite.uses_count > invite.max_uses[1]

MaxUsesExceeded(invite) ==
    invite.max_uses # None /\ invite.uses_count >= invite.max_uses[1]

\* accept_invite: "if existing_share.revoked: raise 403"
RevokedMemberNeverRefused(share) == FALSE

EveryMemberRefused(share) == TRUE

RevokedMemberRefused(share) == share.revoked

\* accept_invite's checks of the invite it found, in the order of the code:
\* revoked, expired, allowed_email, max_uses.  The detail of the 403 raised,
\* or "" when the invite passes.
InviteRefusalCapFirst(invite, email, t) ==
    IF MaxUsesExceeded(invite)
    THEN "Invite max uses exceeded"
    ELSE IF invite.revoked
    THEN "Invite revoked"
    ELSE IF invite.expires_at # None /\ invite.expires_at[1] <= t
    THEN "Invite expired"
    ELSE IF /\ invite.allowed_email # None
            /\ invite.allowed_email # Some(<<>>)
            /\ lower(invite.allowed_email[1]) # lower(email)
    THEN "Invite restricted to a different email"
    ELSE ""

InviteRefusalIgnoresRevoked(invite, email, t) ==
    IF invite.expires_at # None /\ invite.expires_at[1] <= t
    THEN "Invite expired"
    ELSE IF /\ invite.allowed_email # None
            /\ invite.allowed_email # Some(<<>>)
            /\ lower(invite.allowed_email[1]) # lower(email)
    THEN "Invite restricted to a different email"
    ELSE IF MaxUsesExceeded(invite)
    THEN "Invite max uses exceeded"
    ELSE ""

InviteRefusal(invite, email, t) ==
    IF invite.revoked
    THEN "Invite revoked"
    ELSE IF invite.expires_at # None /\ invite.expires_at[1] <= t
    THEN "Invite expired"
    ELSE IF /\ invite.allowed_email # None
            /\ invite.allowed_email # Some(<<>>)
            /\ lower(invite.allowed_email[1]) # lower(email)
    THEN "Invite restricted to a different email"
    ELSE IF MaxUsesExceeded(invite)
    THEN "Invite max uses exceeded"
    ELSE ""

\* POST /invites/accept, its first SELECT: the invite is looked up by the
\* token's hash and checked.
accept_select_invite(p, user_id, token) ==
    /\ p = FreeAcceptSlot
    /\ LET id == invite_by_hash(hash_token(token, INVITE_TOKEN_HMAC_SECRET)) IN
       IF id = 0
       THEN RoomRaise(RoomResponse("accept_invite", 404,
                                   "Invite not found or invalid", user_id, 0, 0))
       ELSE LET invite == invites[id]
                refusal == InviteRefusal(invite, users[user_id].email, now)
            IN
            IF refusal # ""
            THEN RoomRaise(RoomResponse("accept_invite", 403, refusal,
                                        user_id, invite.data_room_id, id))
            ELSE /\ accepting' = [accepting EXCEPT ![p] =
                        [pc |-> "invite_read", user |-> user_id, invite |-> id,
                         data_room_id |-> invite.data_room_id,
                         uses_count |-> invite.uses_count]]
                 /\ UNCHANGED <<now, authVars, documents, audit_logs, rooms, shares,
                                invites, last>>

\* POST /invites/accept, its second SELECT: the caller's Share for the
\* invite's room, if there is one.
accept_select_share(p) ==
    /\ accepting[p].pc = "invite_read"
    /\ LET a == accepting[p]
           key == <<a.data_room_id, a.user>>
       IN
       IF key \in DOMAIN shares
       THEN /\ last' =
                  IF RevokedMemberRefused(shares[key])
                  THEN RoomResponse("accept_invite", 403,
                                    "Your access was revoked for this room",
                                    a.user, a.data_room_id, a.invite)
                  ELSE RoomResponse("accept_invite", 200,
                                    "Already member of the room",
                                    a.user, a.data_room_id, a.invite)
            /\ accepting' = [accepting EXCEPT ![p] = AcceptIdle]
            /\ UNCHANGED <<now, authVars, documents, audit_logs, rooms, shares, invites>>
       ELSE /\ accepting' = [accepting EXCEPT ![p].pc = "share_read"]
            /\ UNCHANGED <<now, authVars, documents, audit_logs, rooms, shares, invites,
                           last>>

\* The shares table's unique constraint uix_data_room_user, and the foreign
\* keys of the new Share: the INSERT fails when the pair already has a row
\* or the room (and with it the invite) was deleted meanwhile.
ShareInsertFailsNoUniqueKey(key) == ~RoomExists(key[1])

ShareInsertFailsUniqueKeyOnly(key) == key \in DOMAIN shares

ShareInsertFails(key) == key \in DOMAIN shares \/ ~RoomExists(key[1])

\* POST /invites/accept, its COMMIT: INSERT the Share, UPDATE the invite
\* "SET uses_count = <the count read> + 1 WHERE id", INSERT the audit entry.
\* A failing INSERT rolls the transaction back and the request ends 500.
accept_commit(p) ==
    /\ accepting[p].pc = "share_read"
    /\ LET a == accepting[p]
           key == <<a.data_room_id, a.user>>
       IN
       IF ShareInsertFails(key)
       THEN /\ last' = RoomResponse("accept_invite", 500,
                                    "Internal Server Error",
                                    a.user, a.data_room_id, a.invite)
            /\ UNCHANGED <<audit_logs, shares, invites>>
       ELSE /\ shares' = InsertShare(key, NewShare("guest", a.invite))
            /\ invites' = [invites EXCEPT ![a.invite].uses_count =
                                              a.uses_count + 1]
            /\ audit_logs' = audit_logs
                   \cup {log_audit(a.user, "accept_invite", "invite",
                                   ToString(a.invite))}
            /\ last' = RoomResponse("accept_invite", 200, "Invite accepted",
                                    a.user, a.data_room_id, a.invite)
    /\ accepting' = [accepting EXCEPT ![p] = AcceptIdle]
    /\ UNCHANGED <<now, authVars, documents, rooms>>

(***************************************************************************)
(* SpecRoom: rooms, invites, shares.                                       *)
(***************************************************************************)
InitRoom ==
    /\ now = 0
    /\ users = SeedUsers
    /\ refresh_tokens = <<>>
    /\ rotated_from = <<>>
    /\ audit_logs = {}
    /\ refreshing = [p \in Procs |-> Idle]
    /\ rooms = <<>>
    /\ shares = <<>>
    /\ invites = <<>>
    /\ accepting = [p \in Procs |-> AcceptIdle]
    /\ documents = <<>>
    /\ last = RoomResponse("none", 0, "", "", 0, 0)

NextRoom ==
    \/ \E u \in ManagerInputs : create_room(u)
    \/ \E u \in ManagerInputs, r \in RoomIdInputs, t \in SeedUserIds :
           revoke_share(u, r, t)
    \/ \E u \in SeedUserIds, r \in RoomIdInputs : delete_data_room(u, r)
    \/ \E u \in ManagerInputs, r \in RoomIdInputs, q \in InviteRequests :
           create_invite(u, r, q)
    \/ \E u \in SeedUserIds, i \in InviteIdInputs : revoke_invite(u, i)
    \/ \E p \in Procs, u \in SeedUserIds, t \in RawTokenInputs :
           accept_select_invite(p, u, t)
    \/ \E p \in Procs : accept_select_share(p)
    \/ \E p \in Procs : accept_commit(p)

SpecRoom == InitRoom /\ [][NextRoom]_vars

(***************************************************************************)
(* SpecResolve: the resolver applied to a seeded database.  No handler     *)
(* stores a Share with expires_at or with a guest's role other than        *)
(* "guest", but the column and the resolver's checks exist, so the rows    *)
(* are drawn here.                                                         *)
(***************************************************************************)
\* What the resolver answered, and to which call.
ResolveResponse(user_id, room_id, require_role) ==
    [op |-> "resolve", user |-> user_id, room_id |-> room_id,
     require_role |-> require_role,
     result |-> require_room_access(user_id, room_id, require_role)]

\* A room-scoped request runs the resolver.
resolve(user_id, room_id, require_role) ==
    /\ last' = ResolveResponse(user_id, room_id, require_role)
    /\ UNCHANGED <<now, authVars, audit_logs, roomVars>>

\* The Share rows a guest may have.
SeedShares ==
    [role : {"guest", "owner"}, invite_id : {0},
     expires_at : {None, Some(REFRESH_TOKEN_EXPIRES_DAYS)},
     revoked : BOOLEAN]

InitResolve ==
    /\ now = 0
    /\ users = SeedUsers
    /\ refresh_tokens = <<>>
    /\ rotated_from = <<>>
    /\ audit_logs = {}
    /\ refreshing = [p \in Procs |-> Idle]
    /\ invites = <<>>
    /\ accepting = [p \in Procs |-> AcceptIdle]
    /\ documents = <<>>
    /\ rooms \in {<<>>, <<[owner_id |-> "u1", live |-> TRUE]>>}
    /\ shares \in
           IF rooms = <<>>
           THEN {<<>>}
           ELSE {[k \in {<<1, "u1">>} |-> NewShare("owner", 0)]}
                \cup {[k \in {<<1, "u1">>, <<1, "u2">>} |->
                          IF k[2] = "u1" THEN NewShare("owner", 0) ELSE sh]
                      : sh \in SeedShares}
    /\ last = [op |-> "none"]

NextResolve ==
    \/ \E u \in SeedUserIds, r \in RoomIdInputs, rr \in RequireRoleInputs :
           resolve(u, r, rr)
    \/ Tick

SpecResolve == InitResolve /\ [][NextResolve]_vars

(***************************************************************************)
(* SpecRedeem: redemptions one after the other (no two requests overlap)   *)
(* of an invite of any shape create_invite can store, by four users, with  *)
(* the clock running past the invite's expiry.                             *)
(***************************************************************************)
\* u1 owns the room; u2 and u4 are guests; u3 is a superuser.
RedeemUsers ==
    [u \in UserIds |->
        [email |-> CASE u = "u1" -> <<"o", "x">>
                     [] u = "u2" -> <<"a", "x">>
                     [] u = "u3" -> <<"s", "x">>
                     [] OTHER -> <<"b", "x">>,
         password_hash |-> hash_password("pw"),
         role |-> IF u = "u1" THEN "owner" ELSE "guest",
         is_verified |-> TRUE, is_active |-> TRUE,
         is_superuser |-> (u = "u3")]]

\* The invite rows create_invite stores for room 1 at time 0: open or
\* restricted to u2's address, unlimited or capped, expiring or not.
SeedInvites ==
    {[data_room_id |-> 1,
      token_hash |-> hash_token(RawToken(1), INVITE_TOKEN_HMAC_SECRET),
      created_by |-> "u1",
      allowed_email |-> e,
      max_uses |-> InviteMaxUses(m, FALSE),
      uses_count |-> 0,
      expires_at |-> InviteExpiresAt(h, 0),
      revoked |-> FALSE,
      live |-> TRUE]
     : e \in {None, Some(<<"A", "x">>)},
       m \in {None, Some(1), Some(2)},
       h \in {None, Some(REFRESH_TOKEN_EXPIRES_DAYS)}}

\* No accept_invite request is in flight.
NoneInFlight == \A p \in Procs : accepting[p].pc = "idle"

InitRedeem ==
    /\ now = 0
    /\ users = RedeemUsers
    /\ refresh_tokens = <<>>
    /\ rotated_from = <<>>
    /\ audit_logs = {}
    /\ refreshing = [p \in Procs |-> Idle]
    /\ rooms = <<[owner_id |-> "u1", live |-> TRUE]>>
    /\ shares = [k \in {<<1, "u1">>} |-> NewShare("owner", 0)]
    /\ invites \in {<<inv>> : inv \in SeedInvites}
    /\ accepting = [p \in Procs |-> AcceptIdle]
    /\ documents = <<>>
    /\ last = RoomResponse("none", 0, "", "", 0, 0)

NextRedeem ==
    \/ \E p \in Procs, u \in UserIds, t \in RawTokenInputs :
           NoneInFlight /\ accept_select_invite(p, u, t)
    \/ \E p \in Procs : accept_select_share(p)
    \/ \E p \in Procs : accept_commit(p)
    \/ NoneInFlight /\ revoke_invite("u1", 1)
    \/ NoneInFlight /\ Tick

SpecRedeem == InitRedeem /\ [][NextRedeem]_vars

(***************************************************************************)
(* The read-only owner handlers of api/invites.py and api/rooms.py, and    *)
(* api/documents.py.  The object store is outside the program: what its    *)
(* HEAD answers is an input of the request.                                *)
(***************************************************************************)
\* GET /invites/room/{room_id}
list_invites_for_room(user_id, room_id) ==
    /\ last' =
           IF ~RoomExists(room_id)
           THEN RoomResponse("list_invites", 404, "Data room not found",
                             user_id, room_id, 0)
           ELSE IF ~IsOwnerOrSuperuser(user_id, room_id)
           THEN RoomResponse("list_invites", 403,
                             "Only owner can list invites", user_id, room_id, 0)
           ELSE RoomResponse("list_invites", 200, "", user_id, room_id, 0)
    /\ UNCHANGED <<now, authVars, audit_logs, roomVars>>

\* GET /rooms/{room_id}/shares
list_shares(user_id, room_id) ==
    /\ last' =
           IF ~RoomExists(room_id)
           THEN RoomResponse("list_shares", 404, "Data room not found",
                             user_id, room_id, 0)
           ELSE IF ~IsOwnerOrSuperuser(user_id, room_id)
           THEN RoomResponse("list_shares", 403,
                             "Only owner can list shares", user_id, room_id, 0)
           ELSE RoomResponse("list_shares", 200, "", user_id, room_id, 0)
    /\ UNCHANGED <<now, authVars, audit_logs, roomVars>>

\* f"rooms/{room_id}/documents/{doc_uuid}"
StorageKey(room_id, doc_uuid) == <<"rooms", room_id, "documents", doc_uuid>>

\* payload.storage_key.startswith(f"rooms/{room_id}/documents/")
BelongsToRoom(storage_key, room_id) ==
    SubSeq(storage_key, 1, 3) = <<"rooms", room_id, "documents">>

DocIds == 1..Len(documents)
DocIdInputs == 1..MaxDocs

\* ConfirmUploadRequest bodies: a key under room 1 and a key under another
\* room.
ConfirmInputs ==
    {[storage_key |-> StorageKey(r, 1), size_bytes |-> 1] : r \in 1..2}

\* What s3.head_object answers: ClientError (None) or the ContentLength.
HeadInputs == {None, Some(1), Some(2)}

\* POST /rooms/{room_id}/documents/presign
presign_upload(user_id, room_id) ==
    IF ~RoomExists(room_id)
    THEN RoomRaise(RoomResponse("presign_upload", 404, "Room not found",
                                user_id, room_id, 0))
    ELSE IF ~IsOwnerOrSuperuser(user_id, room_id)
    THEN RoomRaise(RoomResponse("presign_upload", 403,
                                "Only room owner can initiate uploads",
                                user_id, room_id, 0))
    ELSE /\ audit_logs' = audit_logs
                \cup {log_audit(user_id, "presign_upload", "data_room",
                                ToString(room_id))}
         /\ last' = RoomResponse("presign_upload", 200, "", user_id,
                                 room_id, 0)
         /\ UNCHANGED <<now, authVars, roomVars>>

\* POST /rooms/{room_id}/documents/confirm
confirm_upload(user_id, room_id, payload, head) ==
    LET Refuse(status, detail) ==
            RoomRaise(RoomResponse("confirm_upload", status, detail,
                                   user_id, room_id, 0))
    IN
    IF ~RoomExists(room_id)
    THEN Refuse(404, "Room not found")
    ELSE IF ~IsOwnerOrSuperuser(user_id, room_id)
    THEN Refuse(403, "Only room owner can confirm uploads")
    ELSE IF ~BelongsToRoom(payload.storage_key, room_id)
    THEN Refuse(400, "storage_key does not belong to room")
    ELSE IF head = None
    THEN Refuse(400, "Uploaded object not found in S3")
    ELSE IF head[1] # payload.size_bytes
    THEN Refuse(400, "Size mismatch between client and S3")
    ELSE /\ Len(documents) < MaxDocs
         /\ LET id == Len(documents) + 1 IN
            /\ documents' = Append(documents,
                   [data_room_id |-> room_id, uploaded_by |-> user_id,
                    storage_key |-> payload.storage_key,
                    size_bytes |-> payload.size_bytes, live |-> TRUE])
            /\ audit_logs' = audit_logs
                   \cup {log_audit(user_id, "upload_document", "document",
                                   ToString(id))}
            /\ last' = RoomResponse("confirm_upload", 200, "", user_id,
                                    room_id, 0)
         /\ UNCHANGED <<now, authVars, rooms, shares, invites, accepting>>

\* DELETE /rooms/{room_id}/documents/{doc_id}
delete_document(user_id, room_id, doc_id) ==
    LET Refuse(status, detail) ==
            RoomRaise(RoomResponse("delete_document", status, detail,
                                   user_id, room_id, 0))
    IN
    IF ~RoomExists(room_id)
    THEN Refuse(404, "Room not found")
    ELSE IF ~IsOwnerOrSuperuser(user_id, room_id)
    THEN Refuse(403, "Only room owner can delete documents")
    ELSE IF ~(/\ doc_id \in DocIds
              /\ documents[doc_id].live
              /\ documents[doc_id].data_room_id = room_id)
    THEN Refuse(404, "Document not found")
    ELSE /\ documents' = [documents EXCEPT ![doc_id].live = FALSE]
         /\ audit_logs' = audit_logs
                \cup {log_audit(user_id, "delete_document", "document",
                                ToString(doc_id))}
         /\ last' = RoomResponse("delete_document", 204, "", user_id,
                                 room_id, 0)
         /\ UNCHANGED <<now, authVars, rooms, shares, invites, accepting>>

(***************************************************************************)
(* SpecOwner: the owner-only handlers of a room, called by its owner and   *)
(* by a guest whose Share is absent or of any role, revoked or not.        *)
(***************************************************************************)
\* The Share rows the calling guest may hold.
GuestShares ==
    [role : {"guest", "owner"}, invite_id : {0}, expires_at : {None},
     revoked : BOOLEAN]

InitOwner ==
    /\ now = 0
    /\ users = SeedUsers
    /\ refresh_tokens = <<>>
    /\ rotated_from = <<>>
    /\ audit_logs = {}
    /\ refreshing = [p \in Procs |-> Idle]
    /\ rooms = <<[owner_id |-> "u1", live |-> TRUE]>>
    /\ shares \in
           {[k \in {<<1, "u1">>} |-> NewShare("owner", 0)]}
           \cup {[k \in {<<1, "u1">>, <<1, "u2">>} |->
                     IF k[2] = "u1" THEN NewShare("owner", 0) ELSE sh]
                 : sh \in GuestShares}
    /\ invites = <<>>
    /\ accepting = [p \in Procs |-> AcceptIdle]
    /\ documents = <<>>
    /\ last = RoomResponse("none", 0, "", "", 0, 0)

NextOwner ==
    \/ \E u \in ManagerInputs, r \in RoomIdInputs, q \in InviteRequests :
           create_invite(u, r, q)
    \/ \E u \in SeedUserIds, r \in RoomIdInputs : list_invites_for_room(u, r)
    \/ \E u \in ManagerInputs, i \in InviteIdInputs : revoke_invite(u, i)
    \/ \E u \in ManagerInputs, r \in RoomIdInputs, t \in ManagerInputs :
           revoke_share(u, r, t)
    \/ \E u \in SeedUserIds, r \in RoomIdInputs : list_shares(u, r)
    \/ \E u \in ManagerInputs, r \in RoomIdInputs : delete_data_room(u, r)
    \/ \E u \in ManagerInputs, r \in RoomIdInputs : presign_upload(u, r)
    \/ \E u \in ManagerInputs, r \in RoomIdInputs, b \in ConfirmInputs,
          h \in HeadInputs : confirm_upload(u, r, b, h)
    \/ \E u \in ManagerInputs, r \in RoomIdInputs, d \in DocIdInputs :
           delete_document(u, r, d)

SpecOwner == InitOwner /\ [][NextOwner]_vars

(***************************************************************************)
(* SpecInvite: create_invite with every combination of max_uses,           *)
(* single_use and expires_hours the request model admits, in a room that   *)
(* exists, with revoke_invite and the clock.                               *)
(***************************************************************************)
\* InviteCreateRequest: max_uses and expires_hours are "int | None" (any
\* integer passes validation), single_use is a bool.
InviteBodies ==
    [allowed_email : {None},
     max_uses : {None, Some(-1), Some(0), Some(1), Some(2)},
     single_use : BOOLEAN,
     expires_hours : {None, Some(0), Some(1)}]

InitInvite ==
    /\ now = 0
    /\ users = SeedUsers
    /\ refresh_tokens = <<>>
    /\ rotated_from = <<>>
    /\ audit_logs = {}
    /\ refreshing = [p \in Procs |-> Idle]
    /\ rooms = <<[owner_id |-> "u1", live |-> TRUE]>>
    /\ shares = [k \in {<<1, "u1">>} |-> NewShare("owner", 0)]
    /\ invites = <<>>
    /\ accepting = [p \in Procs |-> AcceptIdle]
    /\ documents = <<>>
    /\ last = RoomResponse("none", 0, "", "", 0, 0)

NextInvite ==
    \/ \E u \in SeedUserIds, r \in RoomIdInputs, q \in InviteBodies :
           create_invite(u, r, q)
    \/ \E u \in SeedUserIds, i \in InviteIdInputs : revoke_invite(u, i)
    \/ Tick

SpecInvite == InitInvite /\ [][NextInvite]_vars

(***************************************************************************)
(* The handlers that call the access resolver (api/documents.py) and       *)
(* list_room_downloads, and SpecScoped: every room-scoped handler, called  *)
(* for a room whose guest has no Share or a Share of any kind, with the    *)
(* clock running up to the Share's expiry.                                 *)
(***************************************************************************)
\* GET /rooms/{room_id}/documents/
list_documents_in_room(user_id, room_id) ==
    /\ last' =
           LET access == require_room_access(user_id, room_id, None) IN
           IF access.status # 200
           THEN RoomResponse("list_documents", access.status, access.detail,
                             user_id, room_id, 0)
           ELSE RoomResponse("list_documents", 200, "", user_id, room_id, 0)
    /\ UNCHANGED <<now, authVars, audit_logs, roomVars>>

\* GET /rooms/{room_id}/documents/{doc_id}/download
get_download_url(user_id, room_id, doc_id) ==
    LET Refuse(status, detail) ==
            RoomRaise(RoomResponse("download_document", status, detail,
                                   user_id, room_id, 0))
        access == require_room_access(user_id, room_id, None)
    IN
    IF access.status # 200
    THEN Refuse(access.status, access.detail)
    ELSE IF ~(/\ doc_id \in DocIds
              /\ documents[doc_id].live
              /\ documents[doc_id].data_room_id = room_id)
    THEN Refuse(404, "Document not found")
    ELSE /\ audit_logs' = audit_logs
                \cup {log_audit(user_id, "download_document", "document",
                                ToString(doc_id))}
         /\ last' = RoomResponse("download_document", 200, "", user_id,
                                 room_id, 0)
         /\ UNCHANGED <<now, authVars, roomVars>>

\* api/access.py user_is_room_owner: the SELECT of the room's owner_id
\* yields None when the room has no row, and None equals no user's id.
user_is_room_owner(user_id, room_id) ==
    RoomExists(room_id) /\ rooms[room_id].owner_id = user_id

\* GET /rooms/{room_id}/downloads: the room itself is never fetched.
list_room_downloads(user_id, room_id) ==
    /\ last' =
           IF ~(\/ users[user_id].is_superuser
                \/ user_is_room_owner(user_id, room_id))
           THEN RoomResponse("list_downloads", 403,
                             "Not authorized to view downloads",
                             user_id, room_id, 0)
           ELSE RoomResponse("list_downloads", 200, "", user_id, room_id, 0)
    /\ UNCHANGED <<now, authVars, audit_logs, roomVars>>

\* The request body create_invite is sent in SpecScoped.
ScopedInviteRequest ==
    [allowed_email |-> None, max_uses |-> None, single_use |-> FALSE,
     expires_hours |-> None]

\* One document uploaded to room 1 by its owner.
ScopedDocuments ==
    <<[data_room_id |-> 1, uploaded_by |-> "u1",
       storage_key |-> StorageKey(1, 1), size_bytes |-> 1, live |-> TRUE]>>

InitScoped ==
    /\ now = 0
    /\ users = SeedUsers
    /\ refresh_tokens = <<>>
    /\ rotated_from = <<>>
    /\ audit_logs = {}
    /\ refreshing = [p \in Procs |-> Idle]
    /\ rooms = <<[owner_id |-> "u1", live |-> TRUE]>>
    /\ shares \in
           {[k \in {<<1, "u1">>} |-> NewShare("owner", 0)]}
           \cup {[k \in {<<1, "u1">>, <<1, "u2">>} |->
                     IF k[2] = "u1" THEN NewShare("owner", 0) ELSE sh]
                 : sh \in SeedShares}
    /\ invites = <<>>
    /\ accepting = [p \in Procs |-> AcceptIdle]
    /\ documents \in {<<>>, ScopedDocuments}
    /\ last = RoomResponse("none", 0, "", "", 0, 0)

NextScoped ==
    \/ \E u \in SeedUserIds, r \in RoomIdInputs : list_documents_in_room(u, r)
    \/ \E u \in SeedUserIds, r \in RoomIdInputs, d \in DocIdInputs :
           get_download_url(u, r, d)
    \/ \E u \in ManagerInputs, r \in RoomIdInputs : presign_upload(u, r)
    \/ \E u \in ManagerInputs, r \in RoomIdInputs, b \in ConfirmInputs,
          h \in HeadInputs : confirm_upload(u, r, b, h)
    \/ \E u \in ManagerInputs, r \in RoomIdInputs, d \in DocIdInputs :
           delete_document(u, r, d)
    \/ \E u \in SeedUserIds, r \in RoomIdInputs : list_invites_for_room(u, r)
    \/ \E u \in ManagerInputs, r \in RoomIdInputs :
           create_invite(u, r, ScopedInviteRequest)
    \/ \E u \in ManagerInputs, i \in InviteIdInputs : revoke_invite(u, i)
    \/ \E u \in SeedUserIds, r \in RoomIdInputs : list_shares(u, r)
    \/ \E u \in ManagerInputs, r \in RoomIdInputs, t \in ManagerInputs :
           revoke_share(u, r, t)
    \/ \E u \in ManagerInputs, r \in RoomIdInputs : delete_data_room(u, r)
    \/ \E u \in SeedUserIds, r \in RoomIdInputs : list_room_downloads(u, r)
    \/ now < REFRESH_TOKEN_EXPIRES_DAYS /\ Tick

SpecScoped == InitScoped /\ [][NextScoped]_vars

(***************************************************************************)
(* api/rooms.py list_rooms, and SpecList: two rooms of two owner-role      *)
(* users, every user with no Share, a Share or a revoked Share for each.   *)
(***************************************************************************)
\* The rows of "select(DataRoom)", as room ids in primary-key order.
AllRooms == SelectSeq([i \in 1..Len(rooms) |-> i], LAMBDA r : rooms[r].live)

\* select(DataRoom).where(DataRoom.owner_id == user.id)
OwnedRooms(user_id) ==
    SelectSeq(AllRooms, LAMBDA r : rooms[r].owner_id = user_id)

\* select(DataRoom).join(Share).where(Share.user_id == user.id,
\* Share.revoked == False): one row for each Share that matches.
SharedRooms(user_id) ==
    SelectSeq(AllRooms, LAMBDA r : /\ <<r, user_id>> \in DOMAIN shares
                                   /\ ~shares[<<r, user_id>>].revoked)

\* "room_set = {r.id: r for r in list(set(owned + shared))}"
CombineKeepsDuplicates(owned, shared) == owned \o shared

CombineUnique(owned, shared) ==
    LET all == owned \o shared IN
    SelectSeq(AllRooms, LAMBDA r : \E i \in 1..Len(all) : all[i] = r)

\* GET /rooms/
list_rooms(user_id) ==
    /\ last' =
           [op |-> "list_rooms", status |-> 200, user |-> user_id,
            rooms |-> IF users[user_id].is_superuser
                      THEN AllRooms
                      ELSE IF users[user_id].role = "owner"
                      THEN CombineUnique(OwnedRooms(user_id),
                                         SharedRooms(user_id))
                      ELSE SharedRooms(user_id)]
    /\ UNCHANGED <<now, authVars, audit_logs, roomVars>>

\* u1 and u4 have role owner, u2 is a guest, u3 is a superuser.
ListUsers ==
    [u \in UserIds |->
        [email |-> CASE u = "u1" -> <<"o", "x">>
                     [] u = "u2" -> <<"a", "x">>
                     [] u = "u3" -> <<"s", "x">>
                     [] OTHER -> <<"p", "x">>,
         password_hash |-> hash_password("pw"),
         role |-> IF u \in {"u1", "u4"} THEN "owner" ELSE "guest",
         is_verified |-> TRUE, is_active |-> TRUE,
         is_superuser |-> (u = "u3")]]

\* Room 1 belongs to u1 and room 2 to u4.
ListRoomTable ==
    <<[owner_id |-> "u1", live |-> TRUE], [owner_id |-> "u4", live |-> TRUE]>>

\* The Share tables of u1, u2 and u4 over the two rooms: for each pair no
\* row, or a row with its revoked flag (InitList builds the rows; the
\* owner's row has role owner).
ListShareTables ==
    LET Pairs == {1, 2} \X {"u1", "u2", "u4"} IN
    UNION {[D -> BOOLEAN] : D \in SUBSET Pairs}

InitList ==
    /\ now = 0
    /\ users = ListUsers
    /\ refresh_tokens = <<>>
    /\ rotated_from = <<>>
    /\ audit_logs = {}
    /\ refreshing = [p \in Procs |-> Idle]
    /\ rooms = ListRoomTable
    /\ \E t \in ListShareTables :
           shares = [k \in DOMAIN t |->
                        [NewShare(IF ListRoomTable[k[1]].owner_id = k[2]
                                  THEN "owner" ELSE "guest", 0)
                         EXCEPT !.revoked = t[k]]]
    /\ invites = <<>>
    /\ accepting = [p \in Procs |-> AcceptIdle]
    /\ documents = <<>>
    /\ last = RoomResponse("none", 0, "", "", 0, 0)

NextList ==
    \/ \E u \in UserIds : list_rooms(u)
    \/ \E u \in UserIds, r \in RoomIds : delete_data_room(u, r)

SpecList == InitList /\ [][NextList]_vars

(***************************************************************************)
(* utils/dependencies.py get_current_user, and SpecGate: users whose       *)
(* is_active or is_verified flag is off (no handler clears a flag: the     *)
(* rows are as an administrator left them), one of them holding a refresh  *)
(* token issued while the flags were on.  Requests do not overlap.         *)
(***************************************************************************)
\* The signed access token of create_access_token, expiring at exp.
AccessToken(user_id, exp) ==
    [sub |-> user_id, type |-> "access", jti |-> 0, exp |-> exp,
     iss |-> JWT_ISSUER, sig |-> "ok"]

\* "if not user.is_active: ...; if not user.is_verified: ..." of
\* get_current_user: the 401's detail, or "".
CurrentUserGateVerifiedOnly(row) ==
    IF ~row.is_verified THEN "Email not verified" ELSE ""

CurrentUserGate(row) ==
    IF ~row.is_active THEN "User inactive"
    ELSE IF ~row.is_verified THEN "Email not verified"
    ELSE ""

\* get_current_user: the 401's detail and no user, or "" and the user's id.
\* The token's type is not looked at.
get_current_user(token, t) ==
    LET Unauthorized(detail) == [detail |-> detail, user |-> ""]
        err == verify_token_err(token, t)
    IN
    IF token = NoToken THEN Unauthorized("Missing authorization header")
    ELSE IF err # "" THEN Unauthorized(err)
    ELSE IF token.sub = "" THEN Unauthorized("Invalid token payload")
    ELSE IF token.sub \notin DOMAIN users THEN Unauthorized("User not found")
    ELSE IF CurrentUserGate(users[token.sub]) # ""
    THEN Unauthorized(CurrentUserGate(users[token.sub]))
    ELSE [detail |-> "", user |-> token.sub]

\* GET /auth/me
read_current_user(user_id) ==
    /\ last' = [op |-> "read_current_user", status |-> 200, detail |-> "",
                user |-> user_id]
    /\ UNCHANGED <<now, authVars, audit_logs, roomVars>>

\* The handlers as the router runs them, declared with
\* "user=Depends(get_current_user)": the dependency runs first and its
\* HTTPException ends the request.
authenticated_read_current_user(token) ==
    LET current == get_current_user(token, now) IN
    IF current.detail # ""
    THEN AuthRaise(Plain("read_current_user", 401, current.detail, token))
    ELSE read_current_user(current.user)

authenticated_create_room(token) ==
    LET current == get_current_user(token, now) IN
    IF current.detail # ""
    THEN AuthRaise(Plain("create_room", 401, current.detail, token))
    ELSE create_room(current.user)

authenticated_list_rooms(token) ==
    LET current == get_current_user(token, now) IN
    IF current.detail # ""
    THEN AuthRaise(Plain("list_rooms", 401, current.detail, token))
    ELSE list_rooms(current.user)

\* u1 is active and verified; u2 is inactive, u3 unverified, u4 both.
GateUsers ==
    [u \in UserIds |->
        [email |-> CASE u = "u1" -> <<"o", "x">>
                     [] u = "u2" -> <<"a", "x">>
                     [] u = "u3" -> <<"s", "x">>
                     [] OTHER -> <<"b", "x">>,
         password_hash |-> hash_password("pw"),
         role |-> "owner",
         is_verified |-> (u \in {"u1", "u2"}),
         is_active |-> (u \in {"u1", "u3"}),
         is_superuser |-> FALSE]]

GateEmails == {GateUsers[u].email : u \in UserIds}

\* The bearer credentials a request may carry: none; an access token of any
\* user, unexpired or expired; the refresh token of any row; a forged token.
BearerInputs ==
    {NoToken}
    \cup {AccessToken(u, e) : u \in UserIds, e \in {0, MaxTime}}
    \cup {TokenOfRow(i) : i \in TokenIds}
    \cup {[AccessToken("u2", MaxTime) EXCEPT !.sig = "forged"]}

InitGate ==
    /\ now = 0
    /\ users = GateUsers
    /\ \E u \in UserIds :
           refresh_tokens =
               <<NewRefreshToken(u, 1, REFRESH_TOKEN_EXPIRES_DAYS)>>
    /\ rotated_from = <<0>>
    /\ audit_logs = {}
    /\ refreshing = [p \in Procs |-> Idle]
    /\ last = Plain("none", 0, "", NoToken)
    /\ rooms = <<>>
    /\ shares = <<>>
    /\ invites = <<>>
    /\ accepting = [p \in Procs |-> AcceptIdle]
    /\ documents = <<>>

NextGate ==
    \/ \E e \in GateEmails, pw \in Passwords : login(e, pw)
    \/ \E p \in Procs, t \in TokenInputs :
           (\A q \in Procs : refreshing[q].pc = "idle") /\ refresh_select(p, t)
    \/ \E p \in Procs : refresh_commit(p)
    \/ \E t \in BearerInputs : authenticated_read_current_user(t)
    \/ \E t \in BearerInputs : authenticated_create_room(t)
    \/ \E t \in BearerInputs : authenticated_list_rooms(t)
    \/ now < REFRESH_TOKEN_EXPIRES_DAYS /\ Tick

SpecGate == InitGate /\ [][NextGate]_vars

(***************************************************************************)
(* SpecDelete: a room with a guest's Share, an open invite and a document  *)
(* is deleted while invites are being redeemed and documents fetched.      *)
(***************************************************************************)
\* Room 1's invite: no restriction, no cap, no expiry.
DeleteSeedInvite ==
    [data_room_id |-> 1,
     token_hash |-> hash_token(RawToken(1), INVITE_TOKEN_HMAC_SECRET),
     created_by |-> "u1", allowed_email |-> None,
     max_uses |-> InviteMaxUses(None, FALSE), uses_count |-> 1,
     expires_at |-> InviteExpiresAt(None, 0), revoked |-> FALSE,
     live |-> TRUE]

InitDelete ==
    /\ now = 0
    /\ users = RedeemUsers
    /\ refresh_tokens = <<>>
    /\ rotated_from = <<>>
    /\ audit_logs = {}
    /\ refreshing = [p \in Procs |-> Idle]
    /\ rooms = <<[owner_id |-> "u1", live |-> TRUE]>>
    /\ shares = [k \in {<<1, "u1">>, <<1, "u2">>} |->
                    IF k[2] = "u1"
                    THEN NewShare("owner", 0)
                    ELSE NewShare("guest", 1)]
    /\ invites = <<DeleteSeedInvite>>
    /\ accepting = [p \in Procs |-> AcceptIdle]
    /\ documents = ScopedDocuments
    /\ last = RoomResponse("none", 0, "", "", 0, 0)

NextDelete ==
    \/ \E u \in UserIds, r \in RoomIdInputs : delete_data_room(u, r)
    \/ \E p \in Procs, u \in UserIds, t \in RawTokenInputs :
           accept_select_invite(p, u, t)
    \/ \E p \in Procs : accept_select_share(p)
    \/ \E p \in Procs : accept_commit(p)
    \/ \E u \in UserIds, r \in RoomIdInputs : list_documents_in_room(u, r)
    \/ \E u \in UserIds, r \in RoomIdInputs, d \in DocIdInputs :
           get_download_url(u, r, d)

SpecDelete == InitDelete /\ [][NextDelete]_vars

(***************************************************************************)
(* SpecMembers: from the empty database, every handler that writes a room  *)
(* or a Share, one request after the other: a role-owner user, a guest or  *)
(* a superuser creates the room, four users redeem its invite, and         *)
(* list_rooms reads the result.                                            *)
(***************************************************************************)
InitMembers ==
    /\ now = 0
    /\ users = ListUsers
    /\ refresh_tokens = <<>>
    /\ rotated_from = <<>>
    /\ audit_logs = {}
    /\ refreshing = [p \in Procs |-> Idle]
    /\ rooms = <<>>
    /\ shares = <<>>
    /\ invites = <<>>
    /\ accepting = [p \in Procs |-> AcceptIdle]
    /\ documents = <<>>
    /\ last = RoomResponse("none", 0, "", "", 0, 0)

NextMembers ==
    \/ \E u \in SeedUserIds : NoneInFlight /\ create_room(u)
    \/ \E u \in SeedUserIds, r \in RoomIdInputs :
           NoneInFlight /\ create_invite(u, r, ScopedInviteRequest)
    \/ \E p \in Procs, u \in UserIds, t \in RawTokenInputs :
           NoneInFlight /\ accept_select_invite(p, u, t)
    \/ \E p \in Procs : accept_select_share(p)
    \/ \E p \in Procs : accept_commit(p)
    \/ \E u \in SeedUserIds, r \in RoomIdInputs, t \in UserIds :
           NoneInFlight /\ revoke_share(u, r, t)
    \/ \E u \in SeedUserIds, r \in RoomIdInputs :
           NoneInFlight /\ delete_data_room(u, r)
    \/ \E u \in UserIds : NoneInFlight /\ list_rooms(u)

SpecMembers == InitMembers /\ [][NextMembers]_vars

(***************************************************************************)
(* SpecCore: the handlers of SpecAuth on the empty database, those of      *)
(* SpecRedeem on its seeded invites and those of SpecOwner on its seeded   *)
(* room, side by side: the users table tells the three databases apart.    *)
(***************************************************************************)
InitCore == InitAuth \/ InitRedeem \/ InitOwner

NextCore ==
    \/ DOMAIN users = UserIds /\ NextRedeem
    \/ DOMAIN users = SeedUserIds /\ NextOwner
    \/ DOMAIN users \notin {UserIds, SeedUserIds} /\ NextAuth

SpecCore == InitCore /\ [][NextCore]_vars

(***************************************************************************)
(* Claims about the token lifecycle (checked under SpecAuth).              *)
(***************************************************************************)

\* C1: concurrent refresh calls presenting the same active refresh token
\* never branch the rotation chain: no state holds two non-revoked rows that
\* were both inserted by rotating the same predecessor row.
C1_RotationNeverBranches ==
    \A i, j \in TokenIds :
        (i # j /\ rotated_from[i] # 0 /\ rotated_from[i] = rotated_from[j])
            => (refresh_tokens[i].revoked \/ refresh_tokens[j].revoked)

\* C3: a refresh call presenting a refresh token whose row it finds already
\* rotated (revoked, with a successor) answers 401 and inserts no new row.
C3_RotatedTokenRefused ==
    (last.op = "refresh" /\ last.rt # 0 /\ last.pre_revoked
        /\ last.pre_replaced_by # 0)
        => (last.status = 401 /\ last.new = 0)

\* A replay of a rotated token was answered.
C3_Witness ==
    /\ last.op = "refresh"
    /\ last.rt # 0
    /\ last.pre_revoked
    /\ last.pre_replaced_by # 0
    /\ last.status = 401
    /\ \E i \in TokenIds : rotated_from[i] = last.rt

\* C4: RefreshToken.revoked is terminal: no step of any handler takes a row
\* from revoked = true back to revoked = false.
C4_RevokedIsTerminal ==
    [][\A i \in TokenIds :
           refresh_tokens[i].revoked => refresh_tokens'[i].revoked]_vars

\* A handler wrote to a row that was already revoked (a logout with a
\* rotated token), and the row is still revoked.
C4_Witness ==
    /\ last.op = "logout"
    /\ last.status = 200
    /\ last.rt # 0
    /\ last.pre_revoked
    /\ last.pre_replaced_by # 0
    /\ refresh_tokens[last.rt].revoked

\* C6 as stated: logout with a validly signed refresh token never returns
\* an error.
C6_LogoutNeverErrors ==
    (last.op = "logout" /\ last.token.sig = "ok" /\ last.token.type = "refresh")
        => last.status = 200

\* C6, amended: logout with a token that verifies (validly signed, not past
\* its exp) never returns an error, whether its row is active, already
\* revoked or absent; after it the row, if any, is revoked; and a logout
\* that finds its row already revoked, or finds none, changes no
\* refresh_tokens row.
C6_LogoutIdempotent ==
    /\ [](last.op = "logout" =>
            /\ last.status \in {200, 401}
            /\ last.status = 401 =>
                   (last.token.sig # "ok" \/ last.token.exp < now)
            /\ (last.status = 200 /\ last.rt # 0) =>
                   refresh_tokens[last.rt].revoked)
    /\ [][\A t \in TokenInputs :
              (logout(t) /\ (rt_by_jti(t.jti) = 0
                             \/ refresh_tokens[rt_by_jti(t.jti)].revoked))
                  => UNCHANGED refresh_tokens]_vars

\* A second logout with the same token was answered 200, and so was a
\* logout with a refresh token that has no row.
C6_Witness ==
    /\ last.op = "logout"
    /\ last.status = 200
    /\ last.rt # 0
    /\ last.pre_revoked
    /\ last.pre_replaced_by = 0
    /\ log_audit(last.token.sub, "logout", "refresh_token", ToString(last.rt))
           \in audit_logs

\* C14: a refresh refused because the token's record is already revoked
\* changes no RefreshToken record and starts no rotation; and a refresh with
\* the token of a record that is neither revoked nor expired, such as the
\* chain's current token after a replay of its predecessor, is not refused.
C14_RejectedReplayChangesNothing ==
    [][\A p \in Procs, t \in TokenInputs :
          LET rt == rt_by_jti(t.jti) IN
          (/\ refresh_select(p, t)
           /\ verify_token_err(t, now) = ""
           /\ t.type = "refresh"
           /\ rt # 0)
              => IF refresh_tokens[rt].revoked
                 THEN /\ last'.status = 401
                      /\ last'.rt = rt
                      /\ UNCHANGED <<refresh_tokens, rotated_from, refreshing,
                                     audit_logs>>
                 ELSE refresh_tokens[rt].expires_at > now
                          => /\ refreshing'[p].pc = "flushed"
                             /\ refreshing'[p].old_rt = rt]_vars

\* T0 was rotated into T1, the replay of T0 was just refused, and T1's
\* record is still active: not revoked, not replaced, not expired.
C14_Witness ==
    /\ last.op = "refresh"
    /\ last.status = 401
    /\ last.rt # 0
    /\ last.pre_replaced_by # 0
    /\ rotated_from[last.pre_replaced_by] = last.rt
    /\ ~refresh_tokens[last.pre_replaced_by].revoked
    /\ refresh_tokens[last.pre_replaced_by].replaced_by = 0
    /\ refresh_tokens[last.pre_replaced_by].expires_at > now
    /\ \A p \in Procs : refreshing[p].pc = "idle"

\* C15: rotation is one commit: the step that commits a refresh of record R
\* appends exactly one record N (not revoked, not replaced, R's user), sets
\* R.revoked and R.replaced_by = N and touches no other record; no state
\* holds a successor of a non-revoked record, and replaced_by set implies
\* revoked.
C15_RotationIsAtomic ==
    /\ [](\A i \in TokenIds :
              /\ refresh_tokens[i].replaced_by # 0 => refresh_tokens[i].revoked
              /\ rotated_from[i] # 0 =>
                     /\ refresh_tokens[rotated_from[i]].revoked
                     /\ refresh_tokens[rotated_from[i]].replaced_by # 0)
    /\ [][\A p \in Procs :
              refresh_commit(p) =>
                  LET R == refreshing[p].old_rt
                      N == Len(refresh_tokens) + 1
                  IN  /\ Len(refresh_tokens') = N
                      /\ ~refresh_tokens'[N].revoked
                      /\ refresh_tokens'[N].replaced_by = 0
                      /\ refresh_tokens'[N].user_id = refresh_tokens[R].user_id
                      /\ refresh_tokens'[R].revoked
                      /\ refresh_tokens'[R].replaced_by = N
                      /\ \A i \in TokenIds \ {R} :
                             refresh_tokens'[i] = refresh_tokens[i]]_vars

\* A refresh just committed: the old record is revoked and points at the new
\* one, which is active.
C15_Witness ==
    /\ last.op = "refresh"
    /\ last.status = 200
    /\ last.new # 0
    /\ ~last.pre_revoked
    /\ refresh_tokens[last.rt].revoked
    /\ refresh_tokens[last.rt].replaced_by = last.new
    /\ ~refresh_tokens[last.new].revoked
    /\ rotated_from[last.new] = last.rt

\* C16: a refresh refused as expired leaves the record of the token it
\* presented with revoked = true.
C16_ExpiredRefreshRevokesRecord ==
    (/\ last.op = "refresh"
     /\ last.status = 401
     /\ last.detail \in {"Token expired", "Refresh token expired"}
     /\ last.token.type = "refresh"
     /\ rt_by_jti(last.token.jti) # 0)
        => refresh_tokens[rt_by_jti(last.token.jti)].revoked

\* C30: no refresh of a token commits after a logout of that token has
\* committed, however the two requests interleave: a row that logout has
\* revoked never gets a successor.
C30_NoRotationAfterLogout ==
    [][\A p \in Procs :
          refresh_commit(p)
          => LET r == refreshing[p] IN
             log_audit(r.user_id, "logout", "refresh_token",
                       ToString(r.old_rt)) \notin audit_logs]_vars

\* C29: a refresh presenting a validly signed, unexpired token that is not
\* of kind refresh, or a refresh token whose jti no RefreshToken row
\* carries, is answered 401, and it inserts and modifies no row.
C29_RefreshNeedsKindAndRecord ==
    [][\A p \in Procs, t \in TokenInputs :
          (/\ refresh_select(p, t)
           /\ verify_token_err(t, now) = ""
           /\ \/ t.type # "refresh"
              \/ ~\E i \in TokenIds : refresh_tokens[i].jti = t.jti)
          => /\ last' = Plain("refresh", 401,
                              IF t.type # "refresh"
                              THEN "Invalid token type"
                              ELSE "Invalid refresh token", t)
             /\ UNCHANGED <<users, refresh_tokens, audit_logs, refreshing>>]_vars

\* A refresh token that no row records was presented while the table held
\* a live row, and was refused.
C29_Witness ==
    /\ last.op = "refresh"
    /\ last.status = 401
    /\ last.detail = "Invalid refresh token"
    /\ last.token.type = "refresh"
    /\ last.token.sig = "ok"
    /\ \A i \in TokenIds : refresh_tokens[i].jti # last.token.jti
    /\ \E i \in TokenIds : ~refresh_tokens[i].revoked

\* C28: a request that ends in an error (any status from 400 up) leaves
\* users, rooms, shares, invites, documents, refresh tokens and the audit
\* log as they were; the one exception is the refresh that finds its record
\* expired, which marks that record revoked and changes nothing else.
C28_ErrorsChangeNothing ==
    [][last'.status >= 400
       => \/ UNCHANGED <<users, refresh_tokens, audit_logs, rooms, shares,
                         invites, documents>>
          \/ /\ last'.op = "refresh"
             /\ last'.detail = "Refresh token expired"
             /\ refresh_tokens' =
                    [refresh_tokens EXCEPT ![last'.rt].revoked = TRUE]
             /\ UNCHANGED <<users, audit_logs, rooms, shares, invites,
                            documents>>]_vars

\* A redeem was refused because the invite was used up; the caller has no
\* Share and the invite's count stands at its cap.
C28_Witness ==
    /\ last.op = "accept_invite"
    /\ last.status = 403
    /\ last.detail = "Invite max uses exceeded"
    /\ invites[last.invite].uses_count = invites[last.invite].max_uses[1]
    /\ <<last.room, last.user>> \notin DOMAIN shares

\* C27: in every reachable state each RefreshToken row that a refresh
\* inserted is the replaced_by target of exactly one row, which is revoked
\* and belongs to the same user; and a row's replaced_by, once set, is never
\* given another value.
C27_LineageReconstructable ==
    /\ [](\A i \in TokenIds :
             rotated_from[i] # 0
             => LET Pred == {j \in TokenIds : refresh_tokens[j].replaced_by = i}
                IN
                /\ Cardinality(Pred) = 1
                /\ \A j \in Pred :
                      /\ refresh_tokens[j].revoked
                      /\ refresh_tokens[j].user_id = refresh_tokens[i].user_id)
    /\ [][\A i \in TokenIds :
             refresh_tokens[i].replaced_by # 0
             => refresh_tokens'[i].replaced_by = refresh_tokens[i].replaced_by]_vars

\* C37: a handler behind get_current_user answers 401 whenever the bearer
\* credential is a validly signed token that is not of kind access, a
\* refresh token in particular.
C37_BearerNeedsAccessKind ==
    [][\A t \in BearerInputs :
          (/\ t.sig = "ok"
           /\ t.type # "access"
           /\ \/ authenticated_read_current_user(t)
              \/ authenticated_create_room(t)
              \/ authenticated_list_rooms(t))
          => last'.status = 401]_vars

\* C25: for a user whose is_active or is_verified flag is off, login is
\* answered 401 and inserts no RefreshToken row, and every handler behind
\* get_current_user is answered 401 and writes nothing, whatever validly
\* signed, unexpired token of that user the request carries.
C25_FlagsGateLoginAndBearer ==
    [][LET Flagged(u) == ~users[u].is_active \/ ~users[u].is_verified
           Refused == /\ last'.status = 401
                      /\ UNCHANGED <<authVars, audit_logs, roomVars>>
       IN
       /\ \A e \in GateEmails, pw \in Passwords :
             (/\ login(e, pw)
              /\ \E u \in user_by_email(lower(e)) : Flagged(u))
             => Refused
       /\ \A t \in BearerInputs :
             (/\ t.sig = "ok" /\ t.exp >= now
              /\ t.sub \in DOMAIN users /\ Flagged(t.sub)
              /\ \/ authenticated_read_current_user(t)
                 \/ authenticated_create_room(t)
                 \/ authenticated_list_rooms(t))
             => Refused]_vars

\* An inactive user presented their unexpired access token and was refused.
C25_Witness ==
    /\ last.op \in {"read_current_user", "create_room", "list_rooms"}
    /\ last.status = 401
    /\ last.detail = "User inactive"
    /\ last.token = AccessToken("u2", MaxTime)
    /\ ~users["u2"].is_active

\* C26: a refresh presenting a valid, active refresh token of a user whose
\* is_active or is_verified flag is off does not succeed: no refresh commits
\* a new RefreshToken row for such a user.
C26_FlagsGateRefresh ==
    [][\A p \in Procs :
          refresh_commit(p)
          => /\ users[refreshing[p].user_id].is_active
             /\ users[refreshing[p].user_id].is_verified]_vars

(***************************************************************************)
(* Claims about invites and shares (checked under SpecRoom).               *)
(***************************************************************************)

\* C2: for an invite with max_uses = N, whatever the interleaving of the
\* redemptions by distinct users holding no Share, at most N of them succeed:
\* the Shares created from the invite never outnumber N.
C2_InviteCapExact ==
    \A i \in InviteIds :
        LET SharesFromInvite == {k \in DOMAIN shares : shares[k].invite_id = i}
        IN  (invites[i].live /\ invites[i].max_uses # None)
                => Cardinality(SharesFromInvite) <= invites[i].max_uses[1]

\* C5: Share.revoked is monotonic: while the room exists, a step of any
\* handler leaves a revoked Share for (room, user) in place and revoked.
C5_RevokedShareStaysRevoked ==
    [][\A k \in DOMAIN shares :
           (shares[k].revoked /\ rooms'[k[1]].live)
               => (k \in DOMAIN shares' /\ shares'[k].revoked)]_vars

\* A revoked member redeemed an invite for the room and was refused; the
\* Share is still there, revoked.
C5_Witness ==
    /\ last.op = "accept_invite"
    /\ last.status = 403
    /\ last.detail = "Your access was revoked for this room"
    /\ <<last.room, last.user>> \in DOMAIN shares
    /\ shares[<<last.room, last.user>>].revoked
    /\ RoomExists(last.room)

\* C11 (checked under SpecRedeem, where no two requests overlap): on an
\* invite with max_uses = N that is not revoked, not expired and open to the
\* caller, a redeem by a user with no Share for the room goes through while
\* uses_count < N: its commit answers 200, creates that user's guest Share
\* and raises uses_count by exactly 1; once uses_count = N such a redeem is
\* refused with 403 and creates nothing; uses_count never exceeds N.
C11_SequentialCapIsExact ==
    /\ [](\A i \in InviteIds :
              invites[i].max_uses # None
                  => invites[i].uses_count <= invites[i].max_uses[1])
    /\ [][/\ \A p \in Procs, u \in UserIds, t \in RawTokenInputs :
                 LET id == invite_by_hash(hash_token(t, INVITE_TOKEN_HMAC_SECRET))
                 IN
                 (/\ accept_select_invite(p, u, t)
                  /\ id # 0
                  /\ ~invites[id].revoked
                  /\ (invites[id].expires_at = None
                         \/ invites[id].expires_at[1] > now)
                  /\ (invites[id].allowed_email = None
                         \/ lower(invites[id].allowed_email[1])
                                = lower(users[u].email))
                  /\ invites[id].max_uses # None
                  /\ <<invites[id].data_room_id, u>> \notin DOMAIN shares)
                     => IF invites[id].uses_count < invites[id].max_uses[1]
                        THEN /\ accepting'[p].pc = "invite_read"
                             /\ accepting'[p].user = u
                        ELSE /\ last'.status = 403
                             /\ last'.detail = "Invite max uses exceeded"
                             /\ accepting'[p].pc = "idle"
                             /\ UNCHANGED <<shares, invites, audit_logs>>
          /\ \A p \in Procs :
                 LET key == <<accepting[p].data_room_id, accepting[p].user>> IN
                 (accept_select_share(p) /\ key \notin DOMAIN shares)
                     => accepting'[p].pc = "share_read"
          /\ \A p \in Procs :
                 LET a == accepting[p]
                     key == <<a.data_room_id, a.user>>
                 IN
                 accept_commit(p)
                     => /\ last'.status = 200
                        /\ key \notin DOMAIN shares
                        /\ key \in DOMAIN shares'
                        /\ shares'[key] = NewShare("guest", a.invite)
                        /\ \A k \in DOMAIN shares : shares'[k] = shares[k]
                        /\ invites'[a.invite].uses_count
                               = invites[a.invite].uses_count + 1]_vars

\* The invite allows two uses; two users redeemed it and a third, who has
\* no Share, was just refused: two Shares from the invite, uses_count = 2.
C11_Witness ==
    /\ last.op = "accept_invite"
    /\ last.status = 403
    /\ last.detail = "Invite max uses exceeded"
    /\ invites[last.invite].max_uses = Some(2)
    /\ invites[last.invite].uses_count = 2
    /\ ~invites[last.invite].revoked
    /\ <<last.room, last.user>> \notin DOMAIN shares
    /\ Cardinality({k \in DOMAIN shares : shares[k].invite_id = last.invite}) = 2

\* C12: when the caller already holds a non-revoked Share for the invite's
\* room, the redemption that reaches the Share lookup answers 200 "already
\* a member" and writes nothing: shares, invites (uses_count) and the audit
\* log are as before; the step that validated the invite wrote nothing
\* either.
C12_MemberRedeemIsNoOp ==
    [][/\ \A p \in Procs :
              LET key == <<accepting[p].data_room_id, accepting[p].user>> IN
              (/\ accept_select_share(p)
               /\ key \in DOMAIN shares
               /\ ~shares[key].revoked)
                  => /\ last'.status = 200
                     /\ last'.detail = "Already member of the room"
                     /\ accepting'[p].pc = "idle"
                     /\ UNCHANGED <<shares, invites, audit_logs, rooms>>
       /\ \A p \in Procs, u \in SeedUserIds, t \in RawTokenInputs :
              accept_select_invite(p, u, t)
                  => UNCHANGED <<shares, invites, audit_logs, rooms>>]_vars

\* A guest who got in through the invite redeemed it again: answered
\* "already a member", one Share from the invite, uses_count still 1.
C12_Witness ==
    /\ last.op = "accept_invite"
    /\ last.status = 200
    /\ last.detail = "Already member of the room"
    /\ <<last.room, last.user>> \in DOMAIN shares
    /\ shares[<<last.room, last.user>>].invite_id = last.invite
    /\ ~shares[<<last.room, last.user>>].revoked
    /\ InviteExists(last.invite)
    /\ invites[last.invite].uses_count = 1
    /\ Cardinality({k \in DOMAIN shares : shares[k].invite_id = last.invite}) = 1

\* C13: a user whose Share for the room is revoked cannot get back in by
\* redeeming: the validation step either refuses with 403 or hands over to
\* the Share lookup, the Share lookup refuses with 403, and no step of the
\* request changes the Share or any uses_count.
C13_RevokedMemberCannotReinstate ==
    [][/\ \A p \in Procs :
              LET key == <<accepting[p].data_room_id, accepting[p].user>> IN
              (/\ accept_select_share(p)
               /\ key \in DOMAIN shares
               /\ shares[key].revoked)
                  => /\ last'.status = 403
                     /\ last'.user = accepting[p].user
                     /\ accepting'[p].pc = "idle"
                     /\ UNCHANGED <<shares, invites, audit_logs>>
       /\ \A p \in Procs, u \in SeedUserIds, t \in RawTokenInputs :
              LET id == invite_by_hash(hash_token(t, INVITE_TOKEN_HMAC_SECRET))
              IN
              (/\ accept_select_invite(p, u, t)
               /\ id # 0
               /\ <<invites[id].data_room_id, u>> \in DOMAIN shares
               /\ shares[<<invites[id].data_room_id, u>>].revoked)
                  => /\ \/ last'.status = 403 /\ accepting'[p].pc = "idle"
                        \/ accepting'[p].pc = "invite_read" /\ last' = last
                     /\ UNCHANGED <<shares, invites, audit_logs>>
       /\ \A p \in Procs :
              LET key == <<accepting[p].data_room_id, accepting[p].user>> IN
              (/\ accept_commit(p)
               /\ key \in DOMAIN shares
               /\ shares[key].revoked)
                  => /\ last'.status # 200
                     /\ UNCHANGED <<shares, invites, audit_logs>>]_vars

\* The guest redeemed the invite, was revoked, and redeemed the same, still
\* valid invite again: refused, the Share still revoked, uses_count still 1.
C13_Witness ==
    /\ last.op = "accept_invite"
    /\ last.status = 403
    /\ last.detail = "Your access was revoked for this room"
    /\ last.user = "u2"
    /\ shares[<<last.room, "u2">>].revoked
    /\ shares[<<last.room, "u2">>].invite_id = last.invite
    /\ InviteExists(last.invite)
    /\ ~invites[last.invite].revoked
    /\ invites[last.invite].uses_count = 1
    /\ log_audit("u1", "revoke_access", "share", <<last.room, "u2">>)
           \in audit_logs

\* C17: in every committed state each invite's uses_count equals the number
\* of Shares created by redeeming it.
C17_UsesCountMatchesShares ==
    \A i \in InviteIds :
        invites[i].live =>
            invites[i].uses_count
                = Cardinality({k \in DOMAIN shares : shares[k].invite_id = i})

\* C18: there is one Share at most per (room, user): a redemption commits a
\* Share only for a pair that has none, a step adds one Share at most and
\* never replaces an existing one's origin or role, and a redemption whose
\* pair got a Share meanwhile fails as a whole: no Share, no uses_count
\* increment, no audit entry.
C18_OneSharePerRoomUser ==
    [][/\ \A p \in Procs :
              LET key == <<accepting[p].data_room_id, accepting[p].user>> IN
              accept_commit(p) =>
                  IF key \in DOMAIN shares
                  THEN /\ last'.status # 200
                       /\ UNCHANGED <<shares, invites, audit_logs>>
                  ELSE last'.status = 200 => key \in DOMAIN shares'
       /\ Cardinality(DOMAIN shares' \ DOMAIN shares) <= 1
       /\ \A k \in DOMAIN shares \cap DOMAIN shares' :
              /\ shares'[k].invite_id = shares[k].invite_id
              /\ shares'[k].role = shares[k].role]_vars

\* The same user redeemed twice at once: one redemption created the Share,
\* the other has just failed, and the invite was used once.
C18_Witness ==
    /\ last.op = "accept_invite"
    /\ last.status = 500
    /\ RoomExists(last.room)
    /\ <<last.room, last.user>> \in DOMAIN shares
    /\ shares[<<last.room, last.user>>].invite_id = last.invite
    /\ ~shares[<<last.room, last.user>>].revoked
    /\ invites[last.invite].uses_count = 1
    /\ Cardinality({k \in DOMAIN shares : shares[k].invite_id = last.invite}) = 1

\* C19 (checked under SpecRedeem): redeem reports the first failing check
\* in the order unknown token (404), invite revoked, invite expired, e-mail
\* restriction, cap (403 each); only an invite passing all of them is handed
\* to the Share lookup; and the checks change no state.
C19_RedeemCheckOrder ==
    [][\A p \in Procs, u \in UserIds, t \in RawTokenInputs :
          LET id == invite_by_hash(hash_token(t, INVITE_TOKEN_HMAC_SECRET))
              Refused(status, detail) ==
                  /\ last'.op = "accept_invite"
                  /\ last'.status = status
                  /\ last'.detail = detail
                  /\ last'.user = u
                  /\ accepting' = accepting
          IN
          accept_select_invite(p, u, t) =>
              /\ UNCHANGED <<shares, invites, audit_logs, rooms>>
              /\ IF id = 0
                 THEN Refused(404, "Invite not found or invalid")
                 ELSE IF invites[id].revoked
                 THEN Refused(403, "Invite revoked")
                 ELSE IF /\ invites[id].expires_at # None
                         /\ invites[id].expires_at[1] <= now
                 THEN Refused(403, "Invite expired")
                 ELSE IF /\ invites[id].allowed_email # None
                         /\ lower(invites[id].allowed_email[1])
                                # lower(users[u].email)
                 THEN Refused(403, "Invite restricted to a different email")
                 ELSE IF /\ invites[id].max_uses # None
                         /\ invites[id].uses_count >= invites[id].max_uses[1]
                 THEN Refused(403, "Invite max uses exceeded")
                 ELSE /\ accepting'[p].pc = "invite_read"
                      /\ accepting'[p].invite = id
                      /\ last' = last]_vars

\* The invite is revoked, expired, restricted to another address and used
\* up, all at once: the redeem reported the first of these, revoked.
C19_Witness ==
    /\ last.op = "accept_invite"
    /\ last.status = 403
    /\ last.detail = "Invite revoked"
    /\ invites[last.invite].revoked
    /\ invites[last.invite].expires_at # None
    /\ invites[last.invite].expires_at[1] <= now
    /\ invites[last.invite].allowed_email # None
    /\ lower(invites[last.invite].allowed_email[1]) # lower(users[last.user].email)
    /\ invites[last.invite].max_uses # None
    /\ invites[last.invite].uses_count >= invites[last.invite].max_uses[1]

\* C20 (checked under SpecOwner): an owner-only operation on an existing
\* room, called by a user who is neither the room's owner nor a superuser,
\* answers 403 and changes no table, whatever Share the caller holds.
C20_OwnerOnlyOperationsRefuseOthers ==
    [][\A u \in SeedUserIds, r \in RoomIdInputs :
          LET Attempted ==
                  \/ \E q \in InviteRequests : create_invite(u, r, q)
                  \/ list_invites_for_room(u, r)
                  \/ \E i \in InviteIdInputs :
                         /\ InviteExists(i)
                         /\ invites[i].data_room_id = r
                         /\ revoke_invite(u, i)
                  \/ \E t \in SeedUserIds : revoke_share(u, r, t)
                  \/ list_shares(u, r)
                  \/ delete_data_room(u, r)
                  \/ presign_upload(u, r)
                  \/ \E b \in ConfirmInputs, h \in HeadInputs :
                         confirm_upload(u, r, b, h)
                  \/ \E d \in DocIdInputs : delete_document(u, r, d)
          IN
          (/\ RoomExists(r)
           /\ ~users[u].is_superuser
           /\ rooms[r].owner_id # u
           /\ Attempted)
              => /\ last'.status = 403
                 /\ last'.user = u
                 /\ last'.room = r
                 /\ UNCHANGED <<users, rooms, shares, invites, documents,
                                audit_logs>>]_vars

\* The guest holds a non-revoked Share of role owner and was refused the
\* deletion of a document that is there, in the room.
C20_Witness ==
    /\ last.op = "delete_document"
    /\ last.status = 403
    /\ last.user = "u2"
    /\ RoomExists(last.room)
    /\ <<last.room, "u2">> \in DOMAIN shares
    /\ ~shares[<<last.room, "u2">>].revoked
    /\ shares[<<last.room, "u2">>].role = "owner"
    /\ \E d \in DocIds :
           documents[d].live /\ documents[d].data_room_id = last.room

\* C24: a room-scoped operation (list, download, upload or delete a
\* document; list, create or revoke an invite; list or revoke shares; delete
\* the room; list downloads) succeeds only when the resolver, asked about
\* the caller and the room in the state the request met, grants.
C24_ScopedSuccessImpliesResolve ==
    [][(/\ now' = now
        /\ last'.op \in {"list_documents", "download_document",
                          "presign_upload", "confirm_upload",
                          "delete_document", "list_invites", "create_invite",
                          "revoke_invite", "list_shares", "revoke_share",
                          "delete_room", "list_downloads"}
        /\ last'.status \in {200, 204})
       => require_room_access(last'.user, last'.room, None).status = 200]_vars

\* C23: list_rooms returns: to a superuser every room; to a non-superuser
\* of role owner the rooms they own together with the rooms where they hold
\* a non-revoked Share, each room once; to anyone else the rooms where they
\* hold a non-revoked Share.
C23_ListRoomsByGrant ==
    last.op = "list_rooms" =>
        LET u == last.user
            Live == {r \in RoomIds : rooms[r].live}
            Owned == {r \in Live : rooms[r].owner_id = u}
            Shared == {r \in Live : /\ <<r, u>> \in DOMAIN shares
                                    /\ ~shares[<<r, u>>].revoked}
            Expected == IF users[u].is_superuser THEN Live
                        ELSE IF users[u].role = "owner"
                        THEN Owned \cup Shared
                        ELSE Shared
        IN
        /\ {last.rooms[i] : i \in 1..Len(last.rooms)} = Expected
        /\ Len(last.rooms) = Cardinality(Expected)

\* An owner who holds the owner's Share of their own room and a guest's
\* Share of the other room is shown both rooms.
C23_Witness ==
    /\ last.op = "list_rooms"
    /\ last.user = "u1"
    /\ <<1, "u1">> \in DOMAIN shares /\ ~shares[<<1, "u1">>].revoked
    /\ <<2, "u1">> \in DOMAIN shares /\ ~shares[<<2, "u1">>].revoked
    /\ last.rooms = <<1, 2>>

C35_ListingAgreesWithResolver ==
    [][\A u \in UserIds :
          list_rooms(u)
          => {last'.rooms[i] : i \in 1..Len(last'.rooms)}
                 = {r \in RoomIds :
                       /\ rooms[r].live
                       /\ require_room_access(u, r, None).status = 200}]_vars

\* The room's owner, whose own Share was revoked, lists the room, while a
\* guest holds a Share of it.
C35_Witness ==
    /\ last.op = "list_rooms"
    /\ last.user = "u1"
    /\ last.rooms = <<1>>
    /\ rooms[1].owner_id = "u1"
    /\ <<1, "u1">> \in DOMAIN shares /\ shares[<<1, "u1">>].revoked
    /\ <<1, "u2">> \in DOMAIN shares /\ ~shares[<<1, "u2">>].revoked

\* C34: in every state reached through the handlers a Share has role owner
\* exactly when its user is the owner of its room, and no Share has an
\* expiry; create_room succeeds only for role-owner users and superusers
\* and adds exactly one Share, the creator's owner Share; every other new
\* Share is a guest Share made from an invite; and no step changes the role
\* of a Share or the owner of a room.
C34_OwnerShareIffRoomOwner ==
    /\ [](\A k \in DOMAIN shares :
             /\ (shares[k].role = "owner") <=> (rooms[k[1]].owner_id = k[2])
             /\ shares[k].role \in {"owner", "guest"}
             /\ shares[k].expires_at = None)
    /\ [][LET added == DOMAIN shares' \ DOMAIN shares IN
          /\ \A u \in SeedUserIds :
                (create_room(u) /\ Len(rooms') > Len(rooms))
                => /\ users[u].role = "owner" \/ users[u].is_superuser
                   /\ added = {<<Len(rooms'), u>>}
                   /\ shares'[<<Len(rooms'), u>>] = NewShare("owner", 0)
                   /\ rooms'[Len(rooms')].owner_id = u
          /\ Len(rooms') = Len(rooms)
                => \A k \in added :
                      /\ shares'[k].role = "guest"
                      /\ shares'[k].invite_id # 0
          /\ \A k \in DOMAIN shares \cap DOMAIN shares' :
                shares'[k].role = shares[k].role
          /\ \A r \in RoomIds :
                rooms'[r].owner_id = rooms[r].owner_id]_vars

\* The room's creator holds the owner Share and a guest has just redeemed
\* an invite to the same room.
C34_Witness ==
    /\ last.op = "accept_invite" /\ last.status = 200
    /\ rooms[1].owner_id = "u1"
    /\ <<1, "u1">> \in DOMAIN shares /\ shares[<<1, "u1">>].role = "owner"
    /\ <<1, "u2">> \in DOMAIN shares /\ shares[<<1, "u2">>].role = "guest"

\* C33: every committed change made by a state-changing operation comes
\* with a committed audit entry for that action: a new user with
\* user_register, a new refresh-token row with user_register, user_login or
\* refresh_token,
\* a newly revoked one with logout or refresh_token (or the expiry answer),
\* a new room with create_room, a deleted room with delete_room, a revoked
\* Share with revoke_access, a redeemed invite with accept_invite, a new
\* invite with create_invite, a revoked one with revoke_invite, a new
\* document with upload_document and a deleted one with delete_document.
C33_EveryChangeAudited ==
    [][LET Audited(a) == \E e \in audit_logs' : e.action = a
           RoomGone(r) == rooms[r].live /\ ~rooms'[r].live
       IN
       /\ DOMAIN users' # DOMAIN users => Audited("user_register")
       /\ Len(refresh_tokens') > Len(refresh_tokens)
              => \/ Audited("user_register")
                 \/ Audited("user_login")
                 \/ Audited("refresh_token")
       /\ (\E i \in TokenIds :
               ~refresh_tokens[i].revoked /\ refresh_tokens'[i].revoked)
              => \/ Audited("logout")
                 \/ Audited("refresh_token")
                 \/ last'.detail = "Refresh token expired"
       /\ Len(rooms') > Len(rooms) => Audited("create_room")
       /\ (\E r \in RoomIds : RoomGone(r)) => Audited("delete_room")
       /\ (\E k \in DOMAIN shares \cap DOMAIN shares' :
               ~shares[k].revoked /\ shares'[k].revoked)
              => Audited("revoke_access")
       /\ (\E k \in DOMAIN shares' \ DOMAIN shares :
               shares'[k].invite_id # 0) => Audited("accept_invite")
       /\ Len(invites') > Len(invites) => Audited("create_invite")
       /\ (\E i \in InviteIds : ~invites[i].revoked /\ invites'[i].revoked)
              => Audited("revoke_invite")
       /\ Len(documents') > Len(documents) => Audited("upload_document")
       /\ (\E d \in DocIds :
               /\ documents[d].live /\ ~documents'[d].live
               /\ ~RoomGone(documents[d].data_room_id))
              => Audited("delete_document")]_vars

\* C32: once delete_data_room has removed room R, no Share, Invite or
\* Document refers to R, the resolver answers 404 for R to every user
\* (superusers included), and every redeem that begins afterwards with the
\* secret of one of R's invites is answered 404 and changes nothing.
C32_DeletedRoomLeavesNothing ==
    /\ [](\A r \in RoomIds :
             ~rooms[r].live
             => /\ \A k \in DOMAIN shares : k[1] # r
                /\ \A i \in InviteIds :
                      invites[i].data_room_id = r => ~invites[i].live
                /\ \A d \in DocIds :
                      documents[d].data_room_id = r => ~documents[d].live
                /\ \A u \in DOMAIN users :
                      require_room_access(u, r, None)
                          = Deny(404, "Data room not found"))
    /\ [][\A p \in Procs, u \in UserIds, i \in InviteIds :
             (/\ ~rooms[invites[i].data_room_id].live
              /\ accept_select_invite(p, u, RawToken(i)))
             => /\ last' = RoomResponse("accept_invite", 404,
                                        "Invite not found or invalid", u, 0, 0)
                /\ UNCHANGED <<shares, invites, accepting, audit_logs>>]_vars

\* The room was deleted, and a later redeem with its invite's secret was
\* answered 404.
C32_Witness ==
    /\ ~rooms[1].live
    /\ last.op = "accept_invite"
    /\ last.status = 404
    /\ shares = <<>>
    /\ ~invites[1].live
    /\ ~documents[1].live

\* C31: authorization does not depend on a Share's invite_id: revoking
\* the invite, its expiry and the exhaustion of its cap change no Share, and
\* every user holding a non-revoked Share that an invite produced is granted
\* access by the resolver, whatever has become of the invite.
C31_ShareOutlivesInvite ==
    /\ [](\A k \in DOMAIN shares :
             (shares[k].invite_id # 0 /\ ~shares[k].revoked)
             => require_room_access(k[2], k[1], None).status = 200)
    /\ [][\A k \in DOMAIN shares :
             k \in DOMAIN shares' /\ shares'[k] = shares[k]]_vars

\* A guest redeemed the invite, the invite was then revoked, and the guest
\* still holds the Share it produced.
C31_Witness ==
    /\ last.op = "revoke_invite"
    /\ last.status = 200
    /\ invites[1].revoked
    /\ <<1, "u2">> \in DOMAIN shares
    /\ shares[<<1, "u2">>].invite_id = 1
    /\ ~shares[<<1, "u2">>].revoked
    /\ require_room_access("u2", 1, None).status = 200

\* C36: create_invite with expires_hours = h, for any integer h given (0
\* included), stores expires_at = creation time + h; only a null
\* expires_hours stores expires_at = null.
C36_ExpiresHoursAlwaysApplied ==
    [][\A u \in SeedUserIds, r \in RoomIdInputs, q \in InviteBodies :
          (create_invite(u, r, q) /\ Len(invites') = Len(invites) + 1)
          => invites'[Len(invites')].expires_at =
                 IF q.expires_hours = None
                 THEN None
                 ELSE Some(now + q.expires_hours[1])]_vars

\* C21: create_invite with single_use=true persists max_uses=1 whatever
\* max_uses the request carries (null, 0, negative or positive); with
\* single_use=false the persisted max_uses is the requested value, null
\* included; and the new invite has uses_count=0 and revoked=false.
C21_SingleUseForcesOne ==
    [][\A u \in SeedUserIds, r \in RoomIdInputs, q \in InviteBodies :
          (create_invite(u, r, q) /\ Len(invites') = Len(invites) + 1)
          => LET inv == invites'[Len(invites')] IN
             /\ inv.max_uses = IF q.single_use THEN Some(1) ELSE q.max_uses
             /\ inv.uses_count = 0
             /\ ~inv.revoked]_vars

\* A request with single_use=true and max_uses=2 was stored with max_uses=1.
C21_Witness ==
    /\ last.op = "create_invite"
    /\ last.status = 200
    /\ last.req.single_use
    /\ last.req.max_uses = Some(2)
    /\ invites[last.invite].max_uses = Some(1)
    /\ invites[last.invite].uses_count = 0
    /\ ~invites[last.invite].revoked

(***************************************************************************)
(* Claims about the access resolver.                                       *)
(***************************************************************************)

\* C7: for a superuser the resolver grants, with no Share context, on every
\* room that exists, whatever Share the superuser has and whatever role is
\* required; it fails only with 404, and only when the room does not exist.
C7_SuperuserResolves ==
    \A u \in DOMAIN users, r \in RoomIdInputs, rr \in RequireRoleInputs :
        users[u].is_superuser =>
            LET res == require_room_access(u, r, rr) IN
            IF RoomExists(r)
            THEN res.status = 200 /\ res.share = None /\ res.room = r
            ELSE res.status = 404

\* The superuser's Share (role guest, from an invite) was revoked and the
\* resolver still grants, even with role owner required.
C7_Witness ==
    /\ RoomExists(1)
    /\ <<1, "u3">> \in DOMAIN shares
    /\ shares[<<1, "u3">>].revoked
    /\ shares[<<1, "u3">>].role = "guest"
    /\ require_room_access("u3", 1, Some("owner")).status = 200
    /\ require_room_access("u3", 1, Some("owner")).share = None

\* C8: for the user whose id is room.owner_id the resolver grants, with no
\* Share context, for every required role and every state of the owner's own
\* Share row.
C8_OwnerResolves ==
    \A u \in DOMAIN users, r \in RoomIdInputs, rr \in RequireRoleInputs :
        (RoomExists(r) /\ rooms[r].owner_id = u) =>
            LET res == require_room_access(u, r, rr) IN
            res.status = 200 /\ res.share = None /\ res.room = r

\* The owner's own Share was revoked through revoke_share and the resolver
\* still grants, even with role guest required.
C8_Witness ==
    /\ RoomExists(1)
    /\ rooms[1].owner_id = "u1"
    /\ ~users["u1"].is_superuser
    /\ <<1, "u1">> \in DOMAIN shares
    /\ shares[<<1, "u1">>].revoked
    /\ log_audit("u1", "revoke_access", "share", <<1, "u1">>) \in audit_logs
    /\ require_room_access("u1", 1, Some("guest")).status = 200

\* C9 (checked under SpecResolve): for a user who is neither superuser nor
\* the room's owner, the resolver on an existing room grants, returning the
\* Share, exactly when a Share for (room, user) exists that is not revoked,
\* has expires_at null or strictly in the future, and has the required role
\* when one is given; otherwise it fails with 403.
C9_GuestResolvesIffShareAdmits ==
    \A u \in DOMAIN users, r \in RoomIdInputs, rr \in RequireRoleInputs :
        (RoomExists(r) /\ ~users[u].is_superuser /\ rooms[r].owner_id # u) =>
            LET res == require_room_access(u, r, rr)
                key == <<r, u>>
                ShareAdmits(share) ==
                    /\ ~share.revoked
                    /\ (share.expires_at = None \/ share.expires_at[1] > now)
                    /\ (rr = None \/ share.role = rr[1])
            IN
            IF key \in DOMAIN shares /\ ShareAdmits(shares[key])
            THEN res.status = 200 /\ res.share = Some(shares[key])
            ELSE res.status = 403

\* The guest was granted with a required role on a Share that expires later,
\* and the resolver returned that Share.
C9_Witness ==
    /\ last.op = "resolve"
    /\ last.user = "u2"
    /\ last.require_role = Some("guest")
    /\ last.result.status = 200
    /\ last.result.share # None
    /\ last.result.share[1].expires_at = Some(REFRESH_TOKEN_EXPIRES_DAYS)
    /\ now < REFRESH_TOKEN_EXPIRES_DAYS

\* C10 (checked under SpecRoom): a successful revoke_share(room, guest)
\* leaves the Share row in place with revoked = true, and for as long as
\* that row exists every resolve by the guest (not owner, not superuser)
\* fails with 403, whatever role is required.
C10_RevokedGuestIsRefused ==
    /\ [](\A k \in DOMAIN shares, rr \in RequireRoleInputs :
              (/\ shares[k].revoked
               /\ ~users[k[2]].is_superuser
               /\ rooms[k[1]].owner_id # k[2])
                  => require_room_access(k[2], k[1], rr).status = 403)
    /\ [][\A u \in ManagerInputs, r \in RoomIdInputs, t \in SeedUserIds :
              (revoke_share(u, r, t) /\ last'.status = 200)
                  => (/\ <<r, t>> \in DOMAIN shares'
                      /\ shares'[<<r, t>>].revoked)]_vars

\* The owner revoked the guest's Share; the row is still there and the guest
\* is now refused.
C10_Witness ==
    /\ last.op = "revoke_share"
    /\ last.status = 200
    /\ RoomExists(1)
    /\ <<1, "u2">> \in DOMAIN shares
    /\ shares[<<1, "u2">>].revoked
    /\ shares[<<1, "u2">>].invite_id # 0
    /\ require_room_access("u2", 1, None).status = 403

====
